---- MODULE Spec2Model ----
(***************************************************************************)
(* A model of the pixels container-lifecycle controller (deevus/pixels):   *)
(* the commands create / start / stop / destroy / checkpoint restore /     *)
(* console / exec, the retry.Do loop, the local cache and the RPC          *)
(* client's ReplaceContainerRootfs.                                        *)
(*                                                                         *)
(* Strings that the code inspects character by character are sequences of  *)
(* ASCII codes.  Every RPC, SSH or process call is one step whose outcome  *)
(* (success or error) is chosen by the environment.                        *)
(***************************************************************************)
EXTENDS Integers, Sequences, FiniteSets, TLC

VARIABLES
    \* ---- the appliance and the local machine (survive a command) ----
    instStatus,   \* status of container px-<name>: "ABSENT" | "RUNNING" | "STOPPED"
    cache,        \* the cache file of <name>: [present, IP, Status, SSHPubKey]
    pubKey,       \* content of <ssh.key>.pub as readSSHPubKey returns it ("" = none)
    \* ---- one invocation of the tool ----
    cmd,          \* the command being run
    pc,           \* its position
    opts,         \* its flags and the configuration it reads
    instance,     \* the local variable `instance`: [found, Status, Aliases]
    ip,           \* the local variable `ip`
    result,       \* "none" | "ok" | "err" | "replaced" (process replaced by ssh) | "exit" | "aborted" | "panic"
    steps,        \* the calls made so far by this invocation, with their results
    conn,         \* TRUE while the WebSocket client of this invocation is open
    tempSnap,     \* temporary clone snapshot: "none" | "live" | "deleted"
    ctx,          \* the context: "background" | "live" | "cancelled"
    \* ---- retry.Do ----
    doPc,         \* position in Do: "idle" | "call" | "sleep" | "ret"
    doN,          \* its parameter attempts
    doD,          \* its parameter delay, in seconds
    doI,          \* its loop index i
    doLog,        \* what it has done: calls of fn ("ok" | "fail") and sleeps
    doRes,        \* its return value: "none" | "nil" | "err" (lastErr) | "ctxerr"
    lastErr,      \* its variable lastErr: 0 (nil) or the number of the call that failed
    \* ---- ReplaceContainerRootfs ----
    rpc,          \* position in ReplaceContainerRootfs ("idle" when not called)
    rIn,          \* its inputs [dataset, name, snap] (dataset = gcfg.Dataset)
    rLog,         \* the calls it has made
    job,          \* its temporary cron job: "none" | "live" | "deleted"
    rRes,         \* its return value: "none" | "ok" | an error kind
    \* ---- retry.Poll ----
    pollPc,       \* position in Poll: "idle" | "check" | "select" | "ret"
    interval,     \* its parameter interval, in time units (> 0)
    timeout,      \* its parameter timeout, in time units
    clock,        \* the time since Poll was entered
    tickAt,       \* the time of the ticker's next tick
    tickerC,      \* TRUE while a tick is buffered in ticker.C
    checks,       \* the calls of fn: the time each was made at, and what it returned
    pollRes,      \* its return value: "none" | "nil" | "fnerr" | "ctxerr" | "timeout"
    cancelAt,     \* where Poll or Do was when ctx was cancelled ("none" if it was not)
    \* ---- the cache directory, shared by concurrent processes ----
    files,        \* the content of each name's file, as bytes; NoFile if there is none
    procs,        \* the processes inside cache.Put or cache.Get, and what they hold
    written,      \* history: per name, the entry of the last Put that returned and of all of them
    \* ---- the egress package and the network commands ----
    rd,           \* a call of egress.ResolveDomains: its arguments, loop state and result
    box,          \* the container's egress state: files, nftables rules, sudoers variant
    net,          \* a network subcommand after resolveNetworkContext: position and locals
    \* ---- the provision package ----
    prov,         \* a run of the second-stage script in the container, and its zmx sessions
    ps,           \* a call of Runner.PollStatus: its arguments, loop state and results
    \* ---- helpers of the commands, the ssh package and the provisioning files ----
    ri,           \* a call of resolveIP: the instance's aliases and the result
    wr,           \* a call of ssh.WaitReady: its timeout, the clock, the dials and the result
    wp,           \* a command waiting for provisioning, and the script's run in the container
    pv,           \* a call of Provision: the inputs, the files written so far and the result
    jt            \* create's provisioning wait with the journal tail beside it

envVars  == <<instStatus, cache, pubKey>>
invVars  == <<cmd, pc, opts, instance, ip, result, steps, conn, tempSnap>>
doVars   == <<doPc, doN, doD, doI, doLog, doRes, lastErr>>
repVars  == <<rpc, rIn, rLog, job, rRes>>
pollCore == <<pollPc, interval, timeout, clock, tickAt, tickerC, checks, pollRes>>
pollVars == <<pollCore, cancelAt>>
fsVars   == <<files, procs, written>>
egVars   == <<rd, box, net>>
provVars == <<prov, ps>>
auxVars  == <<ri, wr, wp, pv, jt>>
libVars  == <<pollVars, fsVars, egVars, provVars, auxVars>>
vars     == <<instStatus, cache, pubKey, cmd, pc, opts, instance, ip, result,
              steps, conn, tempSnap, ctx, doPc, doN, doD, doI, doLog, doRes,
              lastErr, rpc, rIn, rLog, job, rRes, pollPc, interval, timeout,
              clock, tickAt, tickerC, checks, pollRes, cancelAt, files, procs, written, rd, box, net, prov, ps,
              ri, wr, wp, pv, jt>>
\* What a step of a command leaves alone unless it calls Do or
\* ReplaceContainerRootfs.
subVars  == <<ctx, doVars, repVars, libVars>>

-----------------------------------------------------------------------------
(* Strings as sequences of ASCII codes.                                    *)

\* The longest free string the path check is tried on.
MaxLen == 2

\* Characters at and around every boundary of isZFSPathChar's ranges, and the
\* shell metacharacters an injection needs.
\*   10 \n  32 space  36 $  38 &  39 '  44 ,  45 -  46 .  47 /  48 0  57 9
\*   58 :  59 ;  64 @  65 A  90 Z  91 [  95 _  96 `  97 a  122 z  123 {
Alphabet == {10, 32, 36, 38, 39, 44, 45, 46, 47, 48, 57, 58, 59, 64, 65, 90,
             91, 95, 96, 97, 122, 123}

RECURSIVE StrsOfLen(_)
StrsOfLen(n) ==
    IF n = 0 THEN { <<>> }
    ELSE { Append(s, c) : s \in StrsOfLen(n - 1), c \in Alphabet }

Strs == UNION { StrsOfLen(n) : n \in 0..MaxLen }

\* "px-"
containerPrefix == <<112, 120, 45>>
\* "/containers/"
ContainersDir == <<47, 99, 111, 110, 116, 97, 105, 110, 101, 114, 115, 47>>
\* "tank/.ix-virt"
SafeDataset == <<116, 97, 110, 107, 47, 46, 105, 120, 45, 118, 105, 114, 116>>
\* "a", the pixel's user-visible name
PixelName == <<97>>
\* "tank/.ix-virt/containers/px-base@ready"
SafeSnapshot == SafeDataset \o ContainersDir \o containerPrefix
                  \o <<98, 97, 115, 101, 64, 114, 101, 97, 100, 121>>

containerName(name) == containerPrefix \o name

\* A deliberately wrong variant: lets ';' through.
isZFSPathCharSemi(r) ==
    \/ (r >= 97 /\ r <= 122) \/ (r >= 65 /\ r <= 90) \/ (r >= 48 /\ r <= 59)
    \/ r = 47 \/ r = 45 \/ r = 95 \/ r = 46 \/ r = 64

isZFSPathChar(r) ==
    \/ (r >= 97 /\ r <= 122) \/ (r >= 65 /\ r <= 90) \/ (r >= 48 /\ r <= 57)
    \/ r = 47 \/ r = 45 \/ r = 95 \/ r = 46 \/ r = 64

\* dstDataset := gcfg.Dataset + "/containers/" + containerName
DstDataset(in) == in.dataset \o ContainersDir \o in.name

\* The validation loop of ReplaceContainerRootfs: TRUE iff it finds no
\* unsafe character in dstDataset or snapshotID.
PathsSafe(in) ==
    \A p \in {DstDataset(in), in.snap} :
        \A i \in 1..Len(p) : isZFSPathChar(p[i])

-----------------------------------------------------------------------------
(* Values.                                                                 *)

NoInstance == [found |-> FALSE, Status |-> "", Aliases |-> <<>>]
NoEntry    == [present |-> FALSE, IP |-> "", Status |-> "", SSHPubKey |-> ""]
NoOpts     == [from |-> "", console |-> FALSE, provision |-> FALSE,
               cfgNeeds |-> FALSE, confirm |-> TRUE]
NoIn       == [dataset |-> <<>>, name |-> <<>>, snap |-> <<>>]

\* The pixel names with a cache file, the processes that may be inside
\* cache.Put or cache.Get at the same time, and the values of a name without
\* a file and of a process that is in neither.
Names  == {"a", "b"}
Procs  == {"p1", "p2"}
NoFile == <<-1>>
NoProc == [op |-> "none", name |-> "", pc |-> "idle", data |-> <<>>,
           entry |-> <<>>, got |-> <<>>, may |-> {}]

\* The bytes of a file are one-character strings.
Quote == "\""

\* The entries the processes put: two addresses of different lengths, two
\* statuses.  A nil *Entry is NilEntry.
IP5        == <<"1","0",".","0",".","0",".","5">>
IP15       == <<"1","0",".","0",".","0",".","1","5">>
RUNNING    == <<"R","U","N","N","I","N","G">>
STOPPED    == <<"S","T","O","P","P","E","D">>
NilEntry   == [found |-> FALSE, IP |-> <<>>, Status |-> <<>>]
CacheEntries ==
    { [found |-> TRUE, IP |-> IP5,  Status |-> RUNNING],
      [found |-> TRUE, IP |-> IP15, Status |-> RUNNING],
      [found |-> TRUE, IP |-> IP5,  Status |-> STOPPED] }

\* A Go slice of strings: nil, or its elements.
NilSlice   == [nil |-> TRUE,  elems |-> <<>>]
Slice(s)   == [nil |-> FALSE, elems |-> s]

\* No call of ResolveDomains, no container looked at, no network subcommand;
\* NoDomains is what the domains file holds when there is no such file.
NoCall == [pc |-> "idle", egress |-> "", allow |-> NilSlice, preset |-> NilSlice,
           seen |-> {}, merged |-> NilSlice, i |-> 0, out |-> NilSlice]
NoDomains == <<"ENOENT">>
NoBox  == [domains |-> NoDomains, cidrs |-> FALSE, nftconf |-> FALSE, script |-> FALSE,
           rules |-> FALSE, sudoers |-> "open"]
NoLast == [cmd |-> "none", arg |-> <<>>, start |-> NoDomains, result |-> "none",
           wrote |-> FALSE]
NoNet  == [cmd |-> "none", pc |-> "idle", arg |-> <<>>, out |-> <<>>, cur |-> <<>>,
           start |-> NoDomains, result |-> "none", log |-> <<>>, n |-> 0,
           last |-> NoLast]

\* No run of the provisioning script, no call of PollStatus.
NoRun  == [pc |-> "idle", steps |-> <<>>, sentinel |-> FALSE, code |-> <<>>,
           i |-> 0, finalized |-> <<>>, exit |-> "none"]
NoPoll == [pc |-> "idle", names |-> <<>>, raw |-> <<>>, listErr |-> FALSE,
           state |-> <<>>, i |-> 0, parts |-> <<>>, allDone |-> FALSE]

\* The value of a helper's variable while no call of it is under way.
Unused == [pc |-> "idle"]

\* The SSH public keys the local machine may hold; "" is no key configured.
Keys == {"", "k1", "k2"}

\* The alias lists the appliance reports for a running container: none yet
\* (DHCP pending), an IPv4 address, or an IPv6 address before the IPv4 one.
V4 == [Type |-> "INET",  Address |-> "10.0.0.5"]
V6 == [Type |-> "INET6", Address |-> "fe80::1"]
AliasViews(status) ==
    IF status = "RUNNING" THEN { <<>>, <<V4>>, <<V6, V4>> } ELSE { <<>> }

\* What Virt.GetInstance can return without error.
GetInstanceViews ==
    IF instStatus = "ABSENT" THEN { NoInstance }
    ELSE { [found |-> TRUE, Status |-> instStatus, Aliases |-> a] :
             a \in AliasViews(instStatus) }

\* for _, a := range instance.Aliases { if a.Type == "INET" || a.Type == "ipv4" { return a.Address } }
resolveIP(inst) ==
    LET hits == { i \in 1..Len(inst.Aliases) : inst.Aliases[i].Type \in {"INET", "ipv4"} }
    IN  IF hits = {} THEN ""
        ELSE inst.Aliases[CHOOSE i \in hits : \A j \in hits : i <= j].Address

\* cache.Put / cache.Delete / cache.Get on the one file of <name>.
CachePut(e)  == cache' = [present |-> TRUE, IP |-> e.IP, Status |-> e.Status,
                          SSHPubKey |-> e.SSHPubKey]
CacheDelete  == cache' = NoEntry

Log(op, res) == steps' = Append(steps, [op |-> op, res |-> res])
Ops          == { steps[i].op : i \in 1..Len(steps) }
Did(op, res) == \E i \in 1..Len(steps) : steps[i].op = op /\ steps[i].res = res

-----------------------------------------------------------------------------
(* ReplaceContainerRootfs(ctx, containerName, snapshotID)                  *)
(* An RPC issued with a cancelled context fails.                           *)

repFrame == <<envVars, invVars, doVars, ctx, libVars>>

\* c.Virt.GetGlobalConfig: fails, or returns the configuration, whose
\* Dataset is rIn.dataset.
RepGetGlobalConfig ==
    /\ rpc = "r_cfg"
    /\ rLog' = Append(rLog, "GetGlobalConfig")
    /\ \/ /\ rpc' = "r_ret" /\ rRes' = "err_config"
       \/ /\ ctx # "cancelled"
          /\ IF rIn.dataset = <<>>
             THEN rpc' = "r_ret" /\ rRes' = "err_nodataset"
             ELSE rpc' = "r_validate" /\ rRes' = rRes
    /\ UNCHANGED <<rIn, job, repFrame>>

\* The character check, then fmt.Sprintf of the shell command.
RepValidate ==
    /\ rpc = "r_validate"
    /\ IF PathsSafe(rIn)
       THEN /\ rpc' = "r_create"
            /\ rLog' = Append(Append(rLog, "Validate"), "BuildCmd")
            /\ rRes' = rRes
       ELSE /\ rpc' = "r_ret"
            /\ rLog' = Append(rLog, "Validate")
            /\ rRes' = "err_unsafe"
    /\ UNCHANGED <<rIn, job, repFrame>>

\* c.Cron.Create: on success the job exists and its deletion is deferred.
RepCronCreate ==
    /\ rpc = "r_create"
    /\ rLog' = Append(rLog, "CronCreate")
    /\ \/ /\ ctx # "cancelled"
          /\ rpc' = "r_run" /\ job' = "live" /\ rRes' = rRes
       \/ /\ rpc' = "r_ret" /\ rRes' = "err_create" /\ job' = job
    /\ UNCHANGED <<rIn, repFrame>>

\* c.Cron.Run(ctx, job.ID, false): success or failure; either way the
\* function returns and its deferred call runs next.
RepCronRun ==
    /\ rpc = "r_run"
    /\ rLog' = Append(rLog, "CronRun")
    /\ rpc' = "r_defer"
    /\ \/ ctx # "cancelled" /\ rRes' = "ok"
       \/ rRes' = "err_run"
    /\ UNCHANGED <<rIn, job, repFrame>>

\* defer func() { _ = c.Cron.Delete(ctx, job.ID) }(): issued with the same
\* ctx; its error is dropped.
RepDeferredDelete ==
    /\ rpc = "r_defer"
    /\ rpc' = "r_ret"
    /\ rLog' = Append(rLog, "CronDelete")
    /\ \/ ctx # "cancelled" /\ job' = "deleted"
       \/ job' = job
    /\ UNCHANGED <<rIn, rRes, repFrame>>

\* The caller's context is cancelled while a call that takes it is in progress.
Cancel ==
    /\ ctx = "live"
    /\ \/ rpc \notin {"idle", "r_ret"}
       \/ doPc \notin {"idle", "ret"}
    /\ ctx' = "cancelled"
    /\ UNCHANGED <<envVars, invVars, doVars, repVars, libVars>>

-----------------------------------------------------------------------------
(* retry.Do(ctx, attempts, delay, fn)                                      *)

\* Entering Do: `for i := range attempts` with i = 0.
DoEnter(n, d) ==
    /\ doN' = n /\ doD' = d /\ doI' = 0 /\ doLog' = <<>> /\ lastErr' = 0
    /\ IF n > 0 THEN doPc' = "call" /\ doRes' = "none"
                ELSE doPc' = "ret"  /\ doRes' = "nil"

\* A deliberately wrong variant: a success does not end the loop.
DoCallKeepsGoing(ok) ==
    /\ doPc = "call"
    /\ doLog' = Append(doLog, [ev |-> IF ok THEN "ok" ELSE "fail", d |-> 0])
    /\ doI' = doI + 1
    /\ lastErr' = IF ok THEN 0 ELSE doI + 1
    /\ IF doI + 1 < doN THEN doPc' = "sleep" /\ doRes' = doRes
       ELSE doPc' = "ret"  /\ doRes' = IF ok THEN "nil" ELSE "err"
    /\ UNCHANGED <<doN, doD>>

\* A deliberately wrong variant: a delay follows the last failed call too.
DoCallTrailingDelay(ok) ==
    /\ doPc = "call"
    /\ lastErr' = IF ok THEN 0 ELSE doI + 1
    /\ IF ok
       THEN /\ doPc' = "ret" /\ doRes' = "nil" /\ doI' = doI
            /\ doLog' = Append(doLog, [ev |-> "ok", d |-> 0])
       ELSE /\ doI' = doI + 1
            /\ IF doI + 1 < doN
               THEN /\ doPc' = "sleep" /\ doRes' = doRes
                    /\ doLog' = Append(doLog, [ev |-> "fail", d |-> 0])
               ELSE /\ doPc' = "ret"  /\ doRes' = "err"
                    /\ doLog' = Append(Append(doLog, [ev |-> "fail", d |-> 0]),
                                       [ev |-> "sleep", d |-> doD])
    /\ UNCHANGED <<doN, doD>>

\* A deliberately wrong variant: the first error is the one kept.
DoCallKeepsFirstErr(ok) ==
    /\ doPc = "call"
    /\ doLog' = Append(doLog, [ev |-> IF ok THEN "ok" ELSE "fail", d |-> 0])
    /\ lastErr' = IF ok THEN 0 ELSE IF lastErr = 0 THEN doI + 1 ELSE lastErr
    /\ IF ok
       THEN doPc' = "ret" /\ doRes' = "nil" /\ doI' = doI
       ELSE /\ doI' = doI + 1
            /\ IF doI + 1 < doN THEN doPc' = "sleep" /\ doRes' = doRes
                                ELSE doPc' = "ret"  /\ doRes' = "err"
    /\ UNCHANGED <<doN, doD>>

\* lastErr = fn(ctx); if lastErr == nil { return nil }; then the next i,
\* or `return lastErr` after the last one.
DoCall(ok) ==
    /\ doPc = "call"
    /\ doLog' = Append(doLog, [ev |-> IF ok THEN "ok" ELSE "fail", d |-> 0])
    /\ lastErr' = IF ok THEN 0 ELSE doI + 1
    /\ IF ok
       THEN doPc' = "ret" /\ doRes' = "nil" /\ doI' = doI
       ELSE /\ doI' = doI + 1
            /\ IF doI + 1 < doN THEN doPc' = "sleep" /\ doRes' = doRes
                                ELSE doPc' = "ret"  /\ doRes' = "err"
    /\ UNCHANGED <<doN, doD>>

\* A deliberately wrong variant: the delay does not look at ctx.
DoSleepIgnoresCtx ==
    /\ doPc = "sleep"
    /\ doLog' = Append(doLog, [ev |-> "sleep", d |-> doD])
    /\ doPc' = "call" /\ doRes' = doRes
    /\ UNCHANGED <<doN, doD, doI, lastErr>>

\* if i > 0 { select { case <-ctx.Done(): return ctx.Err(); case <-time.After(delay): } }
\* A select that finds ctx done takes that case; the timer's case is taken
\* when the delay has elapsed with ctx not done, and may be taken with ctx
\* done only when both are ready on entry, which takes a delay of 0.
DoSleep ==
    /\ doPc = "sleep"
    /\ \/ /\ ctx = "cancelled"
          /\ doPc' = "ret" /\ doRes' = "ctxerr" /\ doLog' = doLog
       \/ /\ ctx # "cancelled" \/ doD = 0
          /\ doLog' = Append(doLog, [ev |-> "sleep", d |-> doD])
          /\ doPc' = "call" /\ doRes' = doRes
    /\ UNCHANGED <<doN, doD, doI, lastErr>>

-----------------------------------------------------------------------------
(* One invocation of the tool.  Execute() runs rootCmd.Execute(), so       *)
(* cmd.Context() is context.Background(): ctx is never cancelled here.     *)

NoCmd == pc \in {"idle", "done"}

\* The state of a fresh process running command c with flags o.
Begin(c, first, o) ==
    /\ NoCmd
    /\ cmd' = c /\ pc' = first /\ opts' = o
    /\ instance' = NoInstance /\ ip' = "" /\ result' = "none" /\ steps' = <<>>
    /\ conn' = FALSE /\ tempSnap' = "none"
    /\ doPc' = "idle" /\ doN' = 0 /\ doD' = 0 /\ doI' = 0 /\ doLog' = <<>>
    /\ doRes' = "none" /\ lastErr' = 0
    /\ rpc' = "idle" /\ rIn' = NoIn /\ rLog' = <<>> /\ job' = "none"
    /\ rRes' = "none"
    /\ UNCHANGED <<envVars, ctx, libVars>>

\* The user replaces, adds or removes the SSH key pair between two commands.
RotateKey ==
    /\ NoCmd
    /\ \E k \in Keys \ {pubKey} : pubKey' = k
    /\ UNCHANGED <<instStatus, cache, invVars, subVars>>

\* `return err` / `return nil`, or a panic in a function with deferred
\* calls: the deferred calls run next.
Return(r) == pc' = "ret" /\ result' = r

\* Deferred calls of a returning command, last registered first: the
\* temporary snapshot's deletion (create --from <source>), then client.Close().
\* Snapshot.Delete's error is dropped.
Deferred ==
    /\ pc = "ret"
    /\ pc' = "done"
    /\ conn' = FALSE
    /\ IF tempSnap = "live"
       THEN \/ tempSnap' = "deleted" /\ Log("SnapshotDelete", "ok")
            \/ tempSnap' = tempSnap  /\ Log("SnapshotDelete", "err")
       ELSE tempSnap' = tempSnap /\ steps' = steps
    /\ UNCHANGED <<envVars, cmd, opts, instance, ip, result, subVars>>

\* retry.Poll(ctx, interval, timeout, fn) with the fn of create: fn is
\* called first; it refreshes `instance` and is done once resolveIP is
\* non-empty; a GetInstance error is fatal.
PollCheck ==
    /\ cmd = "create" /\ pc = "c_poll"
    /\ \/ /\ Log("Poll", "err") /\ Return("err") /\ instance' = instance
       \/ \E inst \in GetInstanceViews :
            /\ instance' = inst
            /\ result' = result
            /\ IF resolveIP(inst) # ""
               THEN Log("Poll", "ok") /\ pc' = "c_ip"
               ELSE steps' = steps /\ pc' = "c_pollwait"
    /\ UNCHANGED <<envVars, cmd, opts, ip, conn, tempSnap, subVars>>

\* select { case <-ctx.Done(): ...; case <-deadline: ErrTimeout; case <-ticker.C: }
\* An ErrTimeout is not returned by create: it goes on.
PollSelect ==
    /\ cmd = "create" /\ pc = "c_pollwait"
    /\ \/ Log("Poll", "timeout") /\ pc' = "c_ip"
       \/ steps' = steps /\ pc' = "c_poll"
    /\ UNCHANGED <<envVars, cmd, opts, instance, ip, result, conn, tempSnap, subVars>>

-----------------------------------------------------------------------------
(* runCreate                                                               *)

\* --from: "" (none), "source" (temporary snapshot), "source:label", or
\* "malformed" (an empty side of the colon).
CreateOpts ==
    { [from |-> f, console |-> c, provision |-> p, cfgNeeds |-> n, confirm |-> TRUE] :
        f \in {"", "source", "source:label", "malformed"},
        c \in BOOLEAN, p \in BOOLEAN, n \in BOOLEAN }

skipProvision    == opts.from \in {"source", "source:label"}
tempSnapshot     == opts.from = "source"
provisionEnabled == opts.provision /\ ~skipProvision
needsProvision   == pubKey # "" \/ opts.cfgNeeds

BeginCreate == \E o \in CreateOpts : Begin("create", "c_connect", o)

\* The --from parse, then connectClient and `defer client.Close()`.
CreateConnect ==
    /\ cmd = "create" /\ pc = "c_connect"
    /\ IF opts.from = "malformed"
       THEN pc' = "done" /\ result' = "err" /\ conn' = conn /\ steps' = steps
       ELSE \/ /\ conn' = TRUE /\ Log("Connect", "ok") /\ result' = result
               /\ pc' = IF skipProvision THEN "c_resolve" ELSE "c_create"
            \/ /\ conn' = conn /\ Log("Connect", "err")
               /\ pc' = "done" /\ result' = "err"
    /\ UNCHANGED <<envVars, cmd, opts, instance, ip, tempSnap, subVars>>

CreateResolveDataset ==
    /\ cmd = "create" /\ pc = "c_resolve"
    /\ \/ /\ Log("ResolveDataset", "ok") /\ result' = result
          /\ pc' = IF tempSnapshot THEN "c_snapcreate" ELSE "c_snapget"
       \/ Log("ResolveDataset", "err") /\ Return("err")
    /\ UNCHANGED <<envVars, cmd, opts, instance, ip, conn, tempSnap, subVars>>

\* client.Snapshot.Create of px-clone-<ts>, then the defer of its deletion.
CreateSnapshotCreate ==
    /\ cmd = "create" /\ pc = "c_snapcreate"
    /\ \/ /\ Log("SnapshotCreate", "ok") /\ tempSnap' = "live"
          /\ pc' = "c_create" /\ result' = result
       \/ /\ Log("SnapshotCreate", "err") /\ tempSnap' = tempSnap
          /\ Return("err")
    /\ UNCHANGED <<envVars, cmd, opts, instance, ip, conn, subVars>>

\* A deliberately wrong variant: a missing checkpoint is not noticed.
CreateSnapshotGetIgnoresNil ==
    /\ cmd = "create" /\ pc = "c_snapget"
    /\ \/ Log("SnapshotGet", "found") /\ pc' = "c_create" /\ result' = result
       \/ Log("SnapshotGet", "nil")   /\ pc' = "c_create" /\ result' = result
       \/ Log("SnapshotGet", "err")   /\ Return("err")
    /\ UNCHANGED <<envVars, cmd, opts, instance, ip, conn, tempSnap, subVars>>

\* client.Snapshot.Get(snapshotID): an error, nil (no such checkpoint) or
\* the snapshot.
CreateSnapshotGet ==
    /\ cmd = "create" /\ pc = "c_snapget"
    /\ \/ Log("SnapshotGet", "found") /\ pc' = "c_create" /\ result' = result
       \/ Log("SnapshotGet", "nil")   /\ Return("err")
       \/ Log("SnapshotGet", "err")   /\ Return("err")
    /\ UNCHANGED <<envVars, cmd, opts, instance, ip, conn, tempSnap, subVars>>

AfterCreateInstance ==
    IF skipProvision THEN "c_stop"
    ELSE IF provisionEnabled /\ needsProvision THEN "c_provision"
    ELSE "c_ip"

\* A deliberately wrong variant: a failed CreateInstance is only logged.
CreateCreateInstanceGoesOn ==
    /\ cmd = "create" /\ pc = "c_create"
    /\ \/ /\ instStatus = "ABSENT"
          /\ instStatus' = "RUNNING"
          /\ \E a \in AliasViews("RUNNING") :
               instance' = [found |-> TRUE, Status |-> "RUNNING", Aliases |-> a]
          /\ Log("CreateInstance", "ok")
       \/ /\ instStatus' = instStatus /\ instance' = instance
          /\ Log("CreateInstance", "err")
    /\ pc' = AfterCreateInstance /\ result' = result
    /\ UNCHANGED <<cache, pubKey, cmd, opts, ip, conn, tempSnap, subVars>>

\* client.CreateInstance (Autostart: true).  It fails when the name is
\* taken, and may fail otherwise; a failure creates nothing.
CreateCreateInstance ==
    /\ cmd = "create" /\ pc = "c_create"
    /\ \/ /\ instStatus = "ABSENT"
          /\ instStatus' = "RUNNING"
          /\ \E a \in AliasViews("RUNNING") :
               instance' = [found |-> TRUE, Status |-> "RUNNING", Aliases |-> a]
          /\ Log("CreateInstance", "ok")
          /\ pc' = AfterCreateInstance /\ result' = result
       \/ /\ instStatus' = instStatus /\ instance' = instance
          /\ Log("CreateInstance", "err") /\ Return("err")
    /\ UNCHANGED <<cache, pubKey, cmd, opts, ip, conn, tempSnap, subVars>>

\* Clone: client.Virt.StopInstance; an error is returned.
CreateStopInstance ==
    /\ cmd = "create" /\ pc = "c_stop"
    /\ \/ /\ instStatus' = "STOPPED" /\ Log("StopInstance", "ok")
          /\ pc' = "c_replace" /\ result' = result
       \/ /\ instStatus' = instStatus /\ Log("StopInstance", "err")
          /\ Return("err")
    /\ UNCHANGED <<cache, pubKey, cmd, opts, instance, ip, conn, tempSnap, subVars>>

\* "px-clone-20060102-150405"
TempLabel == containerPrefix \o <<99, 108, 111, 110, 101, 45, 50, 48, 48, 54, 48, 49,
                                  48, 50, 45, 49, 53, 48, 52, 48, 53>>
\* "ready"
ReadyLabel == <<114, 101, 97, 100, 121>>
\* srcDS + "@" + fromLabel, with srcDS the dataset of container px-base
SnapshotID ==
    SafeDataset \o ContainersDir \o containerPrefix \o <<98, 97, 115, 101>> \o <<64>>
      \o (IF tempSnapshot THEN TempLabel ELSE ReadyLabel)

\* Clone: the call of client.ReplaceContainerRootfs(ctx, containerName(name), snapshotID).
CreateReplaceCall ==
    /\ cmd = "create" /\ pc = "c_replace"
    /\ pc' = "c_replacing"
    /\ rpc' = "r_cfg" /\ rLog' = <<>> /\ job' = "none" /\ rRes' = "none"
    /\ \E ds \in {SafeDataset, <<>>} :
         rIn' = [dataset |-> ds, name |-> containerName(PixelName), snap |-> SnapshotID]
    /\ UNCHANGED <<envVars, cmd, opts, instance, ip, result, steps, conn, tempSnap,
                   ctx, doVars, libVars>>

\* Its return: on an error the placeholder's deletion comes next.
CreateReplaceReturn ==
    /\ cmd = "create" /\ pc = "c_replacing" /\ rpc = "r_ret"
    /\ rpc' = "idle"
    /\ IF rRes = "ok"
       THEN Log("ReplaceContainerRootfs", "ok")  /\ pc' = "c_start"
       ELSE Log("ReplaceContainerRootfs", "err") /\ pc' = "c_cleanup"
    /\ UNCHANGED <<envVars, cmd, opts, instance, ip, result, conn, tempSnap,
                   ctx, doVars, rIn, rLog, job, rRes, libVars>>

\* _ = client.Virt.DeleteInstance(ctx, containerName(name)); return the
\* clone error.  One attempt; its error is dropped.
CreateCleanupDelete ==
    /\ cmd = "create" /\ pc = "c_cleanup"
    /\ \/ instStatus' = "ABSENT"   /\ Log("DeleteInstance", "ok")
       \/ instStatus' = instStatus /\ Log("DeleteInstance", "err")
    /\ Return("err")
    /\ UNCHANGED <<cache, pubKey, cmd, opts, instance, ip, conn, tempSnap, subVars>>

\* Clone: client.Virt.StartInstance; an error is returned.
CreateStartInstance ==
    /\ cmd = "create" /\ pc = "c_start"
    /\ \/ /\ instStatus' = "RUNNING" /\ Log("StartInstance", "ok")
          /\ pc' = "c_poll" /\ result' = result
       \/ /\ instStatus' = instStatus /\ Log("StartInstance", "err")
          /\ Return("err")
    /\ UNCHANGED <<cache, pubKey, cmd, opts, instance, ip, conn, tempSnap, subVars>>

\* client.Provision: an error is a warning; with an SSH key written the
\* container is restarted.
CreateProvision ==
    /\ cmd = "create" /\ pc = "c_provision"
    /\ \/ /\ Log("Provision", "ok")
          /\ pc' = IF pubKey # "" THEN "c_rstop" ELSE "c_ip"
       \/ /\ Log("Provision", "err") /\ pc' = "c_ip"
    /\ UNCHANGED <<envVars, cmd, opts, instance, ip, result, conn, tempSnap, subVars>>

\* _ = client.Virt.StopInstance(...): the result is dropped.
CreateRestartStop ==
    /\ cmd = "create" /\ pc = "c_rstop"
    /\ \/ instStatus' = "STOPPED" /\ Log("StopInstance", "ok")
       \/ instStatus' = instStatus /\ Log("StopInstance", "err")
    /\ pc' = "c_rstart"
    /\ UNCHANGED <<cache, pubKey, cmd, opts, instance, ip, result, conn, tempSnap, subVars>>

\* client.Virt.StartInstance: an error is a warning.
CreateRestartStart ==
    /\ cmd = "create" /\ pc = "c_rstart"
    /\ \/ instStatus' = "RUNNING" /\ Log("StartInstance", "ok")
       \/ instStatus' = instStatus /\ Log("StartInstance", "err")
    /\ pc' = "c_poll"
    /\ UNCHANGED <<cache, pubKey, cmd, opts, instance, ip, result, conn, tempSnap, subVars>>

\* ip := resolveIP(instance), and whether to wait for SSH.
CreateResolveIP ==
    /\ cmd = "create" /\ pc = "c_ip"
    /\ ip' = resolveIP(instance)
    /\ pc' = IF resolveIP(instance) # "" /\ (provisionEnabled \/ skipProvision)
             THEN "c_wait" ELSE "c_put"
    /\ UNCHANGED <<envVars, cmd, opts, instance, result, steps, conn, tempSnap, subVars>>

\* A deliberately wrong variant: a failed WaitReady ends create with the error.
CreateWaitReadyFails ==
    /\ cmd = "create" /\ pc = "c_wait"
    /\ \/ Log("WaitReady", "ok")  /\ pc' = "c_put" /\ result' = result
       \/ Log("WaitReady", "err") /\ Return("err")
    /\ UNCHANGED <<envVars, cmd, opts, instance, ip, conn, tempSnap, subVars>>

\* ssh.WaitReady: an error is a warning.
CreateWaitReady ==
    /\ cmd = "create" /\ pc = "c_wait"
    /\ \/ Log("WaitReady", "ok")
       \/ Log("WaitReady", "err")
    /\ pc' = "c_put"
    /\ UNCHANGED <<envVars, cmd, opts, instance, ip, result, conn, tempSnap, subVars>>

\* cache.Put(name, &cache.Entry{IP: ip, Status: instance.Status}), then
\* either the console or `return nil`.
CreateCachePut ==
    /\ cmd = "create" /\ pc = "c_put"
    /\ CachePut([IP |-> ip, Status |-> instance.Status, SSHPubKey |-> ""])
    /\ Log("CachePut", "ok")
    /\ IF opts.console /\ ip # ""
       THEN pc' = "c_waitprov" /\ result' = result
       ELSE Return("ok")
    /\ UNCHANGED <<instStatus, pubKey, cmd, opts, instance, ip, conn, tempSnap, subVars>>

\* runner.WaitProvisioned(ctx, ...) returns.
CreateWaitProvisioned ==
    /\ cmd = "create" /\ pc = "c_waitprov"
    /\ Log("WaitProvisioned", "ok")
    /\ pc' = "c_console"
    /\ UNCHANGED <<envVars, cmd, opts, instance, ip, result, conn, tempSnap, subVars>>

\* return ssh.Console(cc, ...): exec.LookPath or syscall.Exec fails and the
\* error is returned, or syscall.Exec replaces the process image: nothing
\* of this process runs after it, its deferred calls included.
CreateConsole ==
    /\ cmd = "create" /\ pc = "c_console"
    /\ \/ Log("Console", "err") /\ Return("err")
       \/ Log("Console", "ok")  /\ pc' = "done" /\ result' = "replaced"
    /\ UNCHANGED <<envVars, cmd, opts, instance, ip, conn, tempSnap, subVars>>

-----------------------------------------------------------------------------
(* connectClient, common to the other commands.                            *)

Connect(next) ==
    \/ conn' = TRUE /\ Log("Connect", "ok")  /\ pc' = next /\ result' = result
    \/ conn' = conn /\ Log("Connect", "err") /\ pc' = "done" /\ result' = "err"

-----------------------------------------------------------------------------
(* runStop                                                                 *)

BeginStop == Begin("stop", "s_connect", NoOpts)

StopConnect ==
    /\ cmd = "stop" /\ pc = "s_connect"
    /\ Connect("s_stop")
    /\ UNCHANGED <<envVars, cmd, opts, instance, ip, tempSnap, subVars>>

\* client.Virt.StopInstance(ctx, containerName(name), Timeout: 30).
StopStopInstance ==
    /\ cmd = "stop" /\ pc = "s_stop"
    /\ \/ /\ instStatus # "ABSENT"
          /\ instStatus' = "STOPPED" /\ Log("StopInstance", "ok")
          /\ pc' = "s_cache" /\ result' = result
       \/ /\ instStatus' = instStatus /\ Log("StopInstance", "err")
          /\ Return("err")
    /\ UNCHANGED <<cache, pubKey, cmd, opts, instance, ip, conn, tempSnap, subVars>>

\* cache.Delete(name); return nil.
StopCacheDelete ==
    /\ cmd = "stop" /\ pc = "s_cache"
    /\ CacheDelete
    /\ Log("CacheDelete", IF cache.present THEN "removed" ELSE "missing")
    /\ Return("ok")
    /\ UNCHANGED <<instStatus, pubKey, cmd, opts, instance, ip, conn, tempSnap, subVars>>

-----------------------------------------------------------------------------
(* runStart                                                                *)

BeginStart == Begin("start", "t_connect", NoOpts)

StartConnect ==
    /\ cmd = "start" /\ pc = "t_connect"
    /\ Connect("t_start")
    /\ UNCHANGED <<envVars, cmd, opts, instance, ip, tempSnap, subVars>>

StartStartInstance ==
    /\ cmd = "start" /\ pc = "t_start"
    /\ \/ /\ instStatus # "ABSENT"
          /\ instStatus' = "RUNNING" /\ Log("StartInstance", "ok")
          /\ pc' = "t_get" /\ result' = result
       \/ /\ instStatus' = instStatus /\ Log("StartInstance", "err")
          /\ Return("err")
    /\ UNCHANGED <<cache, pubKey, cmd, opts, instance, ip, conn, tempSnap, subVars>>

\* Re-fetch to get the IP; ip := resolveIP(instance), which on no instance
\* is a nil pointer dereference.
StartGetInstance ==
    /\ cmd = "start" /\ pc = "t_get"
    /\ \/ /\ Log("GetInstance", "err") /\ Return("err")
          /\ instance' = instance /\ ip' = ip
       \/ \E inst \in GetInstanceViews :
            /\ instance' = inst /\ ip' = resolveIP(inst)
            /\ IF ~inst.found
               THEN Log("GetInstance", "nil") /\ Return("panic")
               ELSE /\ Log("GetInstance", "ok")
                    /\ IF resolveIP(inst) # ""
                       THEN pc' = "t_wait" /\ result' = result
                       ELSE Return("ok")
    /\ UNCHANGED <<envVars, cmd, opts, conn, tempSnap, subVars>>

\* ssh.WaitReady(ctx, ip, 30s): an error is a warning; return nil.
StartWaitReady ==
    /\ cmd = "start" /\ pc = "t_wait"
    /\ \/ Log("WaitReady", "ok")
       \/ Log("WaitReady", "err")
    /\ Return("ok")
    /\ UNCHANGED <<envVars, cmd, opts, instance, ip, conn, tempSnap, subVars>>

-----------------------------------------------------------------------------
(* runDestroy                                                              *)

\* retry.Do(ctx, 3, 2*time.Second, ...)
DestroyAttempts == 3
DestroyDelay == 2

\* confirm: --force, or "y" at the prompt.
BeginDestroy ==
    \E c \in BOOLEAN : Begin("destroy", "d_connect", [NoOpts EXCEPT !.confirm = c])

\* The prompt, then connectClient.
DestroyConnect ==
    /\ cmd = "destroy" /\ pc = "d_connect"
    /\ IF ~opts.confirm
       THEN pc' = "done" /\ result' = "aborted" /\ conn' = conn /\ steps' = steps
       ELSE Connect("d_get")
    /\ UNCHANGED <<envVars, cmd, opts, instance, ip, tempSnap, subVars>>

\* client.Virt.GetInstance: an error, nil (not found), or the instance;
\* a RUNNING one is stopped first.
DestroyGetInstance ==
    /\ cmd = "destroy" /\ pc = "d_get"
    /\ \/ Log("GetInstance", "err") /\ Return("err") /\ instance' = instance
       \/ \E inst \in GetInstanceViews :
            /\ instance' = inst
            /\ IF ~inst.found
               THEN Log("GetInstance", "nil") /\ Return("err")
               ELSE /\ Log("GetInstance", "ok") /\ result' = result
                    /\ pc' = IF inst.Status = "RUNNING" THEN "d_stop" ELSE "d_do"
    /\ UNCHANGED <<envVars, cmd, opts, ip, conn, tempSnap, subVars>>

DestroyStopInstance ==
    /\ cmd = "destroy" /\ pc = "d_stop"
    /\ \/ /\ instStatus' = "STOPPED" /\ Log("StopInstance", "ok")
          /\ pc' = "d_do" /\ result' = result
       \/ /\ instStatus' = instStatus /\ Log("StopInstance", "err")
          /\ Return("err")
    /\ UNCHANGED <<cache, pubKey, cmd, opts, instance, ip, conn, tempSnap, subVars>>

\* The call of retry.Do.
DestroyDoCall ==
    /\ cmd = "destroy" /\ pc = "d_do"
    /\ DoEnter(DestroyAttempts, DestroyDelay)
    /\ pc' = "d_doing"
    /\ UNCHANGED <<envVars, cmd, opts, instance, ip, result, steps, conn, tempSnap,
                   ctx, repVars, libVars>>

\* fn of Do: client.Virt.DeleteInstance; it may fail while the storage
\* volume of the stopped container is still held.
DestroyDeleteInstance ==
    /\ cmd = "destroy" /\ pc = "d_doing"
    /\ \E ok \in BOOLEAN :
         /\ DoCall(ok)
         /\ instStatus' = IF ok THEN "ABSENT" ELSE instStatus
    /\ UNCHANGED <<cache, pubKey, invVars, ctx, repVars, libVars>>

\* The delay of Do between two attempts.
DestroyDoSleep ==
    /\ cmd = "destroy" /\ pc = "d_doing"
    /\ DoSleep
    /\ UNCHANGED <<envVars, invVars, ctx, repVars, libVars>>

\* The return of Do: its error is returned.
DestroyDoReturn ==
    /\ cmd = "destroy" /\ pc = "d_doing" /\ doPc = "ret"
    /\ doPc' = "idle"
    /\ IF doRes = "nil"
       THEN Log("DeleteInstance", "ok")  /\ pc' = "d_cache" /\ result' = result
       ELSE Log("DeleteInstance", "err") /\ Return("err")
    /\ UNCHANGED <<envVars, cmd, opts, instance, ip, conn, tempSnap,
                   ctx, doN, doD, doI, doLog, doRes, lastErr, repVars, libVars>>

\* A deliberately wrong variant: the cache entry is left in place.
DestroyCacheDeleteSkipped ==
    /\ cmd = "destroy" /\ pc = "d_cache"
    /\ Log("CacheDelete", IF cache.present THEN "removed" ELSE "missing")
    /\ Return("ok")
    /\ UNCHANGED <<envVars, cmd, opts, instance, ip, conn, tempSnap, subVars>>

\* cache.Delete(name); return nil.
DestroyCacheDelete ==
    /\ cmd = "destroy" /\ pc = "d_cache"
    /\ CacheDelete
    /\ Log("CacheDelete", IF cache.present THEN "removed" ELSE "missing")
    /\ Return("ok")
    /\ UNCHANGED <<instStatus, pubKey, cmd, opts, instance, ip, conn, tempSnap, subVars>>

-----------------------------------------------------------------------------
(* runCheckpointRestore                                                    *)

BeginRestore == Begin("restore", "k_connect", NoOpts)

RestoreConnect ==
    /\ cmd = "restore" /\ pc = "k_connect"
    /\ Connect("k_resolve")
    /\ UNCHANGED <<envVars, cmd, opts, instance, ip, tempSnap, subVars>>

RestoreResolveDataset ==
    /\ cmd = "restore" /\ pc = "k_resolve"
    /\ \/ Log("ResolveDataset", "ok") /\ pc' = "k_stop" /\ result' = result
       \/ Log("ResolveDataset", "err") /\ Return("err")
    /\ UNCHANGED <<envVars, cmd, opts, instance, ip, conn, tempSnap, subVars>>

\* StopInstance whose error is not checked.
RestoreStopIgnoresError ==
    /\ cmd = "restore" /\ pc = "k_stop"
    /\ \/ /\ instStatus # "ABSENT"
          /\ instStatus' = "STOPPED" /\ Log("StopInstance", "ok")
       \/ /\ instStatus' = instStatus /\ Log("StopInstance", "err")
    /\ pc' = "k_rollback" /\ result' = result
    /\ UNCHANGED <<cache, pubKey, cmd, opts, instance, ip, conn, tempSnap, subVars>>

RestoreStopInstance ==
    /\ cmd = "restore" /\ pc = "k_stop"
    /\ \/ /\ instStatus # "ABSENT"
          /\ instStatus' = "STOPPED" /\ Log("StopInstance", "ok")
          /\ pc' = "k_rollback" /\ result' = result
       \/ /\ instStatus' = instStatus /\ Log("StopInstance", "err")
          /\ Return("err")
    /\ UNCHANGED <<cache, pubKey, cmd, opts, instance, ip, conn, tempSnap, subVars>>

\* client.SnapshotRollback(ctx, ds + "@" + label).
RestoreRollback ==
    /\ cmd = "restore" /\ pc = "k_rollback"
    /\ \/ Log("Rollback", "ok") /\ pc' = "k_start" /\ result' = result
       \/ Log("Rollback", "err") /\ Return("err")
    /\ UNCHANGED <<envVars, cmd, opts, instance, ip, conn, tempSnap, subVars>>

RestoreStartInstance ==
    /\ cmd = "restore" /\ pc = "k_start"
    /\ \/ /\ instStatus' = "RUNNING" /\ Log("StartInstance", "ok")
          /\ pc' = "k_get" /\ result' = result
       \/ /\ instStatus' = instStatus /\ Log("StartInstance", "err")
          /\ Return("err")
    /\ UNCHANGED <<cache, pubKey, cmd, opts, instance, ip, conn, tempSnap, subVars>>

RestoreGetInstance ==
    /\ cmd = "restore" /\ pc = "k_get"
    /\ \/ /\ Log("GetInstance", "err") /\ Return("err")
          /\ instance' = instance /\ ip' = ip
       \/ \E inst \in GetInstanceViews :
            /\ instance' = inst /\ ip' = resolveIP(inst)
            /\ IF ~inst.found
               THEN Log("GetInstance", "nil") /\ Return("panic")
               ELSE Log("GetInstance", "ok") /\ pc' = "k_put" /\ result' = result
    /\ UNCHANGED <<envVars, cmd, opts, conn, tempSnap, subVars>>

\* pubKey, _ := readSSHPubKey();
\* cache.Put(name, &cache.Entry{IP: ip, Status: instance.Status, SSHPubKey: pubKey})
RestoreCachePut ==
    /\ cmd = "restore" /\ pc = "k_put"
    /\ CachePut([IP |-> ip, Status |-> instance.Status, SSHPubKey |-> pubKey])
    /\ Log("CachePut", "ok")
    /\ IF ip # "" THEN pc' = "k_wait" /\ result' = result ELSE Return("ok")
    /\ UNCHANGED <<instStatus, pubKey, cmd, opts, instance, ip, conn, tempSnap, subVars>>

RestoreWaitReady ==
    /\ cmd = "restore" /\ pc = "k_wait"
    /\ \/ Log("WaitReady", "ok")
       \/ Log("WaitReady", "err")
    /\ Return("ok")
    /\ UNCHANGED <<envVars, cmd, opts, instance, ip, conn, tempSnap, subVars>>

-----------------------------------------------------------------------------
(* runConsole                                                              *)

BeginConsole == Begin("console", "n_cache", NoOpts)

\* pubKey, _ := readSSHPubKey(); cached := cache.Get(name); the fast path
\* is taken on a RUNNING entry with an IP and the current key.
ConsoleCacheGet ==
    /\ cmd = "console" /\ pc = "n_cache"
    /\ IF cache.present /\ cache.IP # "" /\ cache.Status = "RUNNING"
          /\ cache.SSHPubKey = pubKey
       THEN ip' = cache.IP /\ Log("CacheGet", "hit")  /\ pc' = "n_wait"
       ELSE ip' = ip       /\ Log("CacheGet", "miss") /\ pc' = "n_connect"
    /\ UNCHANGED <<envVars, cmd, opts, instance, result, conn, tempSnap, subVars>>

ConsoleConnect ==
    /\ cmd = "console" /\ pc = "n_connect"
    /\ Connect("n_get")
    /\ UNCHANGED <<envVars, cmd, opts, instance, ip, tempSnap, subVars>>

\* client.Virt.GetInstance: an error, nil (not found) or the instance; one
\* that is not RUNNING is started.
ConsoleGetInstance ==
    /\ cmd = "console" /\ pc = "n_get"
    /\ \/ Log("GetInstance", "err") /\ Return("err") /\ instance' = instance
       \/ \E inst \in GetInstanceViews :
            /\ instance' = inst
            /\ IF ~inst.found
               THEN Log("GetInstance", "nil") /\ Return("err")
               ELSE /\ Log("GetInstance", "ok") /\ result' = result
                    /\ pc' = IF inst.Status # "RUNNING" THEN "n_start" ELSE "n_ip"
    /\ UNCHANGED <<envVars, cmd, opts, ip, conn, tempSnap, subVars>>

ConsoleStartInstance ==
    /\ cmd = "console" /\ pc = "n_start"
    /\ \/ /\ instStatus' = "RUNNING" /\ Log("StartInstance", "ok")
          /\ pc' = "n_refresh" /\ result' = result
       \/ /\ instStatus' = instStatus /\ Log("StartInstance", "err")
          /\ Return("err")
    /\ UNCHANGED <<cache, pubKey, cmd, opts, instance, ip, conn, tempSnap, subVars>>

ConsoleRefresh ==
    /\ cmd = "console" /\ pc = "n_refresh"
    /\ \/ Log("Refresh", "err") /\ Return("err") /\ instance' = instance
       \/ \E inst \in GetInstanceViews :
            /\ instance' = inst /\ Log("Refresh", "ok")
            /\ pc' = "n_ip" /\ result' = result
    /\ UNCHANGED <<envVars, cmd, opts, ip, conn, tempSnap, subVars>>

\* ip = resolveIP(instance); no IP is an error.  With a key configured,
\* client.WriteAuthorizedKey (an error is a warning).
ConsoleResolveIP ==
    /\ cmd = "console" /\ pc = "n_ip"
    /\ ip' = resolveIP(instance)
    /\ IF resolveIP(instance) = ""
       THEN Return("err") /\ steps' = steps
       ELSE /\ result' = result
            /\ pc' = "n_put"
            /\ IF pubKey # ""
               THEN \/ Log("WriteAuthorizedKey", "ok")
                    \/ Log("WriteAuthorizedKey", "err")
               ELSE steps' = steps
    /\ UNCHANGED <<envVars, cmd, opts, instance, conn, tempSnap, subVars>>

\* cache.Put(name, &cache.Entry{IP: ip, Status: instance.Status, SSHPubKey: pubKey})
ConsoleCachePut ==
    /\ cmd = "console" /\ pc = "n_put"
    /\ CachePut([IP |-> ip, Status |-> instance.Status, SSHPubKey |-> pubKey])
    /\ Log("CachePut", "ok")
    /\ pc' = "n_wait"
    /\ UNCHANGED <<instStatus, pubKey, cmd, opts, instance, ip, result, conn, tempSnap, subVars>>

\* ssh.WaitReady(ctx, ip, 30s): an error is returned.
ConsoleWaitReady ==
    /\ cmd = "console" /\ pc = "n_wait"
    /\ \/ Log("WaitReady", "ok")  /\ pc' = "n_console" /\ result' = result
       \/ Log("WaitReady", "err") /\ Return("err")
    /\ UNCHANGED <<envVars, cmd, opts, instance, ip, conn, tempSnap, subVars>>

\* return ssh.Console(...): the process is replaced, or an error is returned.
ConsoleConsole ==
    /\ cmd = "console" /\ pc = "n_console"
    /\ \/ Log("Console", "err") /\ Return("err")
       \/ Log("Console", "ok")  /\ pc' = "done" /\ result' = "replaced"
    /\ UNCHANGED <<envVars, cmd, opts, instance, ip, conn, tempSnap, subVars>>

-----------------------------------------------------------------------------
(* runExec                                                                 *)

BeginExec == Begin("exec", "e_cache", NoOpts)

\* cached := cache.Get(name); the fast path is taken on a RUNNING entry
\* with an IP.
ExecCacheGet ==
    /\ cmd = "exec" /\ pc = "e_cache"
    /\ IF cache.present /\ cache.IP # "" /\ cache.Status = "RUNNING"
       THEN ip' = cache.IP /\ Log("CacheGet", "hit")  /\ pc' = "e_wait"
       ELSE ip' = ip       /\ Log("CacheGet", "miss") /\ pc' = "e_connect"
    /\ UNCHANGED <<envVars, cmd, opts, instance, result, conn, tempSnap, subVars>>

ExecConnect ==
    /\ cmd = "exec" /\ pc = "e_connect"
    /\ Connect("e_get")
    /\ UNCHANGED <<envVars, cmd, opts, instance, ip, tempSnap, subVars>>

\* client.Virt.GetInstance; nil, a status other than RUNNING and an empty
\* IP are errors.
ExecGetInstance ==
    /\ cmd = "exec" /\ pc = "e_get"
    /\ \/ /\ Log("GetInstance", "err") /\ Return("err")
          /\ instance' = instance /\ ip' = ip
       \/ \E inst \in GetInstanceViews :
            /\ instance' = inst
            /\ IF ~inst.found
               THEN Log("GetInstance", "nil") /\ Return("err") /\ ip' = ip
               ELSE /\ Log("GetInstance", "ok")
                    /\ IF inst.Status # "RUNNING"
                       THEN Return("err") /\ ip' = ip
                       ELSE /\ ip' = resolveIP(inst)
                            /\ IF resolveIP(inst) = ""
                               THEN Return("err")
                               ELSE pc' = "e_put" /\ result' = result
    /\ UNCHANGED <<envVars, cmd, opts, conn, tempSnap, subVars>>

\* cache.Put(name, &cache.Entry{IP: ip, Status: instance.Status})
ExecCachePut ==
    /\ cmd = "exec" /\ pc = "e_put"
    /\ CachePut([IP |-> ip, Status |-> instance.Status, SSHPubKey |-> ""])
    /\ Log("CachePut", "ok")
    /\ pc' = "e_wait"
    /\ UNCHANGED <<instStatus, pubKey, cmd, opts, instance, ip, result, conn, tempSnap, subVars>>

ExecWaitReady ==
    /\ cmd = "exec" /\ pc = "e_wait"
    /\ \/ Log("WaitReady", "ok")  /\ pc' = "e_auth" /\ result' = result
       \/ Log("WaitReady", "err") /\ Return("err")
    /\ UNCHANGED <<envVars, cmd, opts, instance, ip, conn, tempSnap, subVars>>

\* ensureSSHAuth: ssh.TestAuth succeeds, or the key is written through a
\* second client; any failure on the way is returned.
ExecEnsureSSHAuth ==
    /\ cmd = "exec" /\ pc = "e_auth"
    /\ \/ Log("ensureSSHAuth", "ok")  /\ pc' = "e_exec" /\ result' = result
       \/ Log("ensureSSHAuth", "err") /\ Return("err")
    /\ UNCHANGED <<envVars, cmd, opts, instance, ip, conn, tempSnap, subVars>>

\* ssh.Exec: an error is returned; exit code 0 returns nil; any other exit
\* code ends the process with os.Exit(exitCode).
ExecExec ==
    /\ cmd = "exec" /\ pc = "e_exec"
    /\ \/ Log("Exec", "err")     /\ Return("err")
       \/ Log("Exec", "ok")      /\ Return("ok")
       \/ Log("Exec", "nonzero") /\ pc' = "done" /\ result' = "exit"
    /\ UNCHANGED <<envVars, cmd, opts, instance, ip, conn, tempSnap, subVars>>

-----------------------------------------------------------------------------
(* The network commands, up to and after resolveNetworkContext.            *)

BeginNetwork == Begin("network", "w_cache", NoOpts)

\* if entry := cache.Get(name); entry != nil && entry.Status == "RUNNING" && entry.IP != "" { ip = entry.IP }
NetworkCacheGet ==
    /\ cmd = "network" /\ pc = "w_cache"
    /\ IF cache.present /\ cache.Status = "RUNNING" /\ cache.IP # ""
       THEN ip' = cache.IP /\ Log("CacheGet", "hit")
       ELSE ip' = ip       /\ Log("CacheGet", "miss")
    /\ pc' = "w_connect"
    /\ UNCHANGED <<envVars, cmd, opts, instance, result, conn, tempSnap, subVars>>

\* connectClient; then the lookup only when the cache gave no IP.
NetworkConnect ==
    /\ cmd = "network" /\ pc = "w_connect"
    /\ Connect(IF ip = "" THEN "w_get" ELSE "w_run")
    /\ UNCHANGED <<envVars, cmd, opts, instance, ip, tempSnap, subVars>>

\* client.Virt.GetInstance: an error is returned; the result is then used
\* without a nil check, so `instance.Status` on no instance is a nil
\* pointer dereference and the process panics, with no deferred call
\* registered yet; a status other than RUNNING
\* and an empty IP are errors.
NetworkGetInstance ==
    /\ cmd = "network" /\ pc = "w_get"
    /\ \/ /\ Log("GetInstance", "err") /\ Return("err")
          /\ instance' = instance /\ ip' = ip /\ conn' = conn
       \/ \E inst \in GetInstanceViews :
            /\ instance' = inst
            /\ IF ~inst.found
               THEN /\ Log("GetInstance", "nil")
                    /\ pc' = "done" /\ result' = "panic" /\ conn' = conn /\ ip' = ip
               ELSE /\ Log("GetInstance", "ok") /\ conn' = conn
                    /\ IF inst.Status # "RUNNING"
                       THEN Return("err") /\ ip' = ip
                       ELSE /\ ip' = resolveIP(inst)
                            /\ IF resolveIP(inst) = ""
                               THEN Return("err")
                               ELSE pc' = "w_run" /\ result' = result
    /\ UNCHANGED <<envVars, cmd, opts, tempSnap, subVars>>

\* What the command does with the context: commands run in the container
\* over SSH as root.
NetworkRun ==
    /\ cmd = "network" /\ pc = "w_run"
    /\ \/ Log("sshAsRoot", "ok")  /\ Return("ok")
       \/ Log("sshAsRoot", "err") /\ Return("err")
    /\ UNCHANGED <<envVars, cmd, opts, instance, ip, conn, tempSnap, subVars>>

-----------------------------------------------------------------------------
(* The tool: commands run one after another against the same appliance     *)
(* and the same cache.                                                     *)

InvIdle ==
    /\ cmd = "idle" /\ pc = "idle" /\ opts = NoOpts /\ instance = NoInstance
    /\ ip = "" /\ result = "none" /\ steps = <<>> /\ conn = FALSE
    /\ tempSnap = "none"
DoIdle ==
    /\ doPc = "idle" /\ doN = 0 /\ doD = 0 /\ doI = 0 /\ doLog = <<>>
    /\ doRes = "none" /\ lastErr = 0
PollIdle ==
    /\ pollPc = "idle" /\ interval = 1 /\ timeout = 0 /\ clock = 0 /\ tickAt = 0
    /\ tickerC = FALSE /\ checks = <<>> /\ pollRes = "none" /\ cancelAt = "none"
FsIdle ==
    /\ files = [n \in Names |-> NoFile] /\ procs = [p \in Procs |-> NoProc]
    /\ written = [n \in Names |-> [last |-> NilEntry, all |-> {}]]
EgIdle ==
    /\ rd = NoCall /\ box = NoBox /\ net = NoNet
ProvIdle ==
    /\ prov = NoRun /\ ps = NoPoll
AuxIdle ==
    /\ ri = Unused /\ wr = Unused /\ wp = Unused /\ pv = Unused /\ jt = Unused
RepIdle ==
    /\ rpc = "idle" /\ rIn = NoIn /\ rLog = <<>> /\ job = "none" /\ rRes = "none"

Init ==
    /\ instStatus = "ABSENT" /\ cache = NoEntry /\ pubKey \in Keys
    /\ InvIdle /\ DoIdle /\ RepIdle /\ PollIdle /\ FsIdle /\ EgIdle /\ ProvIdle /\ AuxIdle
    /\ ctx = "background"

Next ==
    \/ RotateKey
    \/ BeginCreate \/ CreateConnect \/ CreateResolveDataset
    \/ CreateSnapshotCreate \/ CreateSnapshotGet \/ CreateCreateInstance
    \/ CreateStopInstance \/ CreateReplaceCall \/ CreateReplaceReturn
    \/ CreateCleanupDelete \/ CreateStartInstance \/ PollCheck \/ PollSelect
    \/ CreateProvision \/ CreateRestartStop \/ CreateRestartStart
    \/ CreateResolveIP \/ CreateWaitReady \/ CreateCachePut
    \/ CreateWaitProvisioned \/ CreateConsole
    \/ RepGetGlobalConfig \/ RepValidate \/ RepCronCreate \/ RepCronRun
    \/ RepDeferredDelete
    \/ BeginStop \/ StopConnect \/ StopStopInstance \/ StopCacheDelete
    \/ BeginStart \/ StartConnect \/ StartStartInstance \/ StartGetInstance
    \/ StartWaitReady
    \/ BeginDestroy \/ DestroyConnect \/ DestroyGetInstance
    \/ DestroyStopInstance \/ DestroyDoCall \/ DestroyDeleteInstance
    \/ DestroyDoSleep \/ DestroyDoReturn \/ DestroyCacheDelete
    \/ BeginRestore \/ RestoreConnect \/ RestoreResolveDataset
    \/ RestoreStopInstance \/ RestoreRollback \/ RestoreStartInstance
    \/ RestoreGetInstance \/ RestoreCachePut \/ RestoreWaitReady
    \/ BeginConsole \/ ConsoleCacheGet \/ ConsoleConnect \/ ConsoleGetInstance
    \/ ConsoleStartInstance \/ ConsoleRefresh \/ ConsoleResolveIP
    \/ ConsoleCachePut \/ ConsoleWaitReady \/ ConsoleConsole
    \/ BeginExec \/ ExecCacheGet \/ ExecConnect \/ ExecGetInstance
    \/ ExecCachePut \/ ExecWaitReady \/ ExecEnsureSSHAuth \/ ExecExec
    \/ BeginNetwork \/ NetworkCacheGet \/ NetworkConnect \/ NetworkGetInstance
    \/ NetworkRun
    \/ Deferred

Spec == Init /\ [][Next]_vars

-----------------------------------------------------------------------------
(* ReplaceContainerRootfs called directly, with a context its caller may   *)
(* cancel.                                                                 *)

\* One free string in one of the places a caller or the appliance
\* controls, the others safe.
ReplaceInputs ==
    { [dataset |-> s, name |-> containerName(PixelName), snap |-> SafeSnapshot] : s \in Strs }
    \cup { [dataset |-> SafeDataset, name |-> containerName(s), snap |-> SafeSnapshot] : s \in Strs }
    \cup { [dataset |-> SafeDataset, name |-> containerName(PixelName), snap |-> s] : s \in Strs }
    \cup { [dataset |-> s, name |-> containerName(PixelName), snap |-> s] : s \in Strs }

InitReplace ==
    /\ instStatus = "STOPPED" /\ cache = NoEntry /\ pubKey = ""
    /\ InvIdle /\ DoIdle /\ PollIdle /\ FsIdle /\ EgIdle /\ ProvIdle /\ AuxIdle
    /\ ctx = "live"
    /\ rpc = "r_cfg" /\ rIn \in ReplaceInputs /\ rLog = <<>> /\ job = "none"
    /\ rRes = "none"

NextReplace ==
    \/ RepGetGlobalConfig \/ RepValidate \/ RepCronCreate \/ RepCronRun
    \/ RepDeferredDelete \/ Cancel

SpecReplace == InitReplace /\ [][NextReplace]_vars

-----------------------------------------------------------------------------
(* retry.Do called directly, with a context its caller may cancel.         *)

\* The largest number of attempts Do is called with.
MaxAttempts == 3

doFrame == <<envVars, invVars, repVars, pollCore, fsVars, egVars, provVars, auxVars>>

\* attempts from 0 up, a delay of 0 or of 2, and a context that is live or
\* already cancelled.
InitDo ==
    /\ instStatus = "ABSENT" /\ cache = NoEntry /\ pubKey = ""
    /\ InvIdle /\ RepIdle /\ PollIdle /\ FsIdle /\ EgIdle /\ ProvIdle /\ AuxIdle
    /\ ctx \in {"live", "cancelled"}
    /\ doN \in 0..MaxAttempts /\ doD \in {0, 2}
    /\ doI = 0 /\ doLog = <<>> /\ lastErr = 0
    /\ doPc = (IF doN > 0 THEN "call" ELSE "ret")
    /\ doRes = (IF doN > 0 THEN "none" ELSE "nil")

\* fn(ctx) returns nil or an error.
DoFn ==
    /\ \E ok \in BOOLEAN : DoCall(ok)
    /\ UNCHANGED <<ctx, cancelAt, doFrame>>

DoDelay ==
    /\ DoSleep
    /\ UNCHANGED <<ctx, cancelAt, doFrame>>

\* The caller cancels ctx while Do is in fn or in its delay.
DoCancel ==
    /\ ctx = "live" /\ doPc \in {"call", "sleep"}
    /\ ctx' = "cancelled" /\ cancelAt' = doPc
    /\ UNCHANGED <<doVars, doFrame>>

NextDo == DoFn \/ DoDelay \/ DoCancel

SpecDo == InitDo /\ [][NextDo]_vars

-----------------------------------------------------------------------------
(* retry.Poll called directly.  Time is counted in units; fn may take      *)
(* time, and so may the wait in select.                                    *)

\* The longest timeout Poll is called with; time is followed one unit
\* past it.
MaxTimeout == 2
MaxClock   == MaxTimeout + 1
Intervals  == {1, 2}

pollFrame == <<envVars, invVars, doVars, repVars, fsVars, egVars, provVars, auxVars>>

InitPoll ==
    /\ instStatus = "ABSENT" /\ cache = NoEntry /\ pubKey = ""
    /\ InvIdle /\ DoIdle /\ RepIdle /\ FsIdle /\ EgIdle /\ ProvIdle /\ AuxIdle
    /\ ctx \in {"background", "live", "cancelled"}
    /\ pollPc = "enter"
    /\ interval \in Intervals /\ timeout \in 0..MaxTimeout
    /\ clock = 0 /\ tickAt = 0 /\ tickerC = FALSE /\ checks = <<>>
    /\ pollRes = "none" /\ cancelAt = "none"

\* The cases of the select that are ready.
CtxDone       == ctx = "cancelled"
DeadlineReady == clock >= timeout
NothingReady  == ~CtxDone /\ ~DeadlineReady /\ ~tickerC

\* A deliberately wrong variant: the first check comes after a wait.
PollEnterWaitsFirst ==
    /\ pollPc = "enter"
    /\ tickAt' = clock + interval
    /\ pollPc' = "select"
    /\ UNCHANGED <<interval, timeout, clock, tickerC, checks, pollRes, cancelAt,
                   ctx, pollFrame>>

\* deadline := time.After(timeout); ticker := time.NewTicker(interval);
\* the loop begins with the call of fn.
PollEnter ==
    /\ pollPc = "enter"
    /\ tickAt' = clock + interval
    /\ pollPc' = "check"
    /\ checks' = Append(checks, [at |-> clock, out |-> "running"])
    /\ UNCHANGED <<interval, timeout, clock, tickerC, pollRes, cancelAt,
                   ctx, pollFrame>>

\* done, err := fn(ctx); an error and done end Poll.
PollFn ==
    /\ pollPc = "check"
    /\ \E out \in {"false", "done", "err"} :
         /\ checks' = [checks EXCEPT ![Len(checks)].out = out]
         /\ pollPc' = IF out = "false" THEN "select" ELSE "ret"
         /\ pollRes' = CASE out = "false" -> pollRes
                         [] out = "done"  -> "nil"
                         [] out = "err"   -> "fnerr"
    /\ UNCHANGED <<interval, timeout, clock, tickAt, tickerC, cancelAt, ctx, pollFrame>>

\* A deliberately wrong variant: the wait goes on after ctx is done.
PollTimeIgnoresCtx ==
    /\ pollPc = "check" \/ (pollPc = "select" /\ ~DeadlineReady /\ ~tickerC)
    /\ clock < MaxClock
    /\ clock' = clock + 1
    /\ IF clock + 1 >= tickAt
       THEN tickerC' = TRUE /\ tickAt' = tickAt + interval
       ELSE tickerC' = tickerC /\ tickAt' = tickAt
    /\ UNCHANGED <<pollPc, interval, timeout, checks, pollRes, cancelAt, ctx, pollFrame>>

\* One unit of time passes, while fn runs or while the select waits with
\* no case ready.  The ticker puts a tick in its channel, which holds one.
PollTime ==
    /\ pollPc = "check" \/ (pollPc = "select" /\ NothingReady)
    /\ clock < MaxClock
    /\ clock' = clock + 1
    /\ IF clock + 1 >= tickAt
       THEN tickerC' = TRUE /\ tickAt' = tickAt + interval
       ELSE tickerC' = tickerC /\ tickAt' = tickAt
    /\ UNCHANGED <<pollPc, interval, timeout, checks, pollRes, cancelAt, ctx, pollFrame>>

\* case <-ctx.Done(): return ctx.Err()
PollSelectCtx ==
    /\ pollPc = "select" /\ CtxDone
    /\ pollPc' = "ret" /\ pollRes' = "ctxerr"
    /\ UNCHANGED <<interval, timeout, clock, tickAt, tickerC, checks, cancelAt,
                   ctx, pollFrame>>

\* A deliberately wrong variant: the deadline does not wait for the timeout.
PollSelectDeadlineEarly ==
    /\ pollPc = "select"
    /\ pollPc' = "ret" /\ pollRes' = "timeout"
    /\ UNCHANGED <<interval, timeout, clock, tickAt, tickerC, checks, cancelAt,
                   ctx, pollFrame>>

\* case <-deadline: return fmt.Errorf("%w after %s", ErrTimeout, timeout)
PollSelectDeadline ==
    /\ pollPc = "select" /\ DeadlineReady
    /\ pollPc' = "ret" /\ pollRes' = "timeout"
    /\ UNCHANGED <<interval, timeout, clock, tickAt, tickerC, checks, cancelAt,
                   ctx, pollFrame>>

\* case <-ticker.C: the next iteration.
PollSelectTick ==
    /\ pollPc = "select" /\ tickerC
    /\ tickerC' = FALSE /\ pollPc' = "check"
    /\ checks' = Append(checks, [at |-> clock, out |-> "running"])
    /\ UNCHANGED <<interval, timeout, clock, tickAt, pollRes, cancelAt,
                   ctx, pollFrame>>

\* The caller cancels ctx: while fn runs ("check"), while the select waits
\* with no case ready ("wait"), or when another case is ready ("select").
PollCancel ==
    /\ ctx = "live" /\ pollPc \in {"check", "select"}
    /\ ctx' = "cancelled"
    /\ cancelAt' = IF pollPc = "select" /\ NothingReady THEN "wait" ELSE pollPc
    /\ UNCHANGED <<pollCore, pollFrame>>

NextPoll ==
    \/ PollEnter \/ PollFn \/ PollTime \/ PollSelectCtx \/ PollSelectDeadline
    \/ PollSelectTick \/ PollCancel

SpecPoll == InitPoll /\ [][NextPoll]_vars

\* fn returns, time passes, and a select with a ready case takes one; Go
\* picks among the ready cases at random, so a case that is ready again and
\* again is taken.
SpecPollFair ==
    /\ InitPoll /\ [][NextPoll]_vars
    /\ WF_vars(PollEnter) /\ WF_vars(PollFn) /\ WF_vars(PollTime)
    /\ SF_vars(PollSelectCtx) /\ SF_vars(PollSelectDeadline)
    /\ WF_vars(PollSelectTick)

-----------------------------------------------------------------------------
(* The cache package, called by processes that run at the same time: each  *)
(* `pixels` command is a process of its own and they share the directory.  *)

\* json.Marshal of an Entry: {"ip":"<IP>","status":"<Status>"}
JsonOpen == <<"{", Quote, "i", "p", Quote, ":", Quote>>
JsonMid  == <<Quote, ",", Quote, "s", "t", "a", "t", "u", "s", Quote, ":", Quote>>
JsonEnd  == <<Quote, "}">>
Marshal(e) == JsonOpen \o e.IP \o JsonMid \o e.Status \o JsonEnd

\* The position of the first quote of b at or after i; 0 if there is none.
IndexOfQuote(b, i) ==
    LET ks == { k \in i..Len(b) : b[k] = Quote }
    IN  IF ks = {} THEN 0 ELSE CHOOSE k \in ks : \A m \in ks : k <= m

\* Whether s stands in b at position i.
HasAt(b, i, s) ==
    /\ i >= 1 /\ i + Len(s) - 1 <= Len(b)
    /\ SubSeq(b, i, i + Len(s) - 1) = s

\* json.Unmarshal(data, &e) on what a cache file can hold: a document that
\* Marshal wrote is decoded; no input, an unfinished document and any byte
\* after the closing brace are errors, for which Get returns nil.
Unmarshal(b) ==
    LET p  == Len(JsonOpen) + 1
        q1 == IndexOfQuote(b, p)
    IN  IF ~HasAt(b, 1, JsonOpen) \/ q1 = 0 THEN NilEntry
        ELSE LET s  == q1 + Len(JsonMid)
                 q2 == IndexOfQuote(b, s)
             IN  IF \/ ~HasAt(b, q1, JsonMid)
                    \/ q2 = 0
                    \/ ~HasAt(b, q2, JsonEnd)
                    \/ q2 + Len(JsonEnd) - 1 # Len(b)
                 THEN NilEntry
                 ELSE [found |-> TRUE, IP |-> SubSeq(b, p, q1 - 1),
                       Status |-> SubSeq(b, s, q2 - 1)]

\* write(2) of data at offset 0 of a file that holds `old`: the bytes of
\* `old` beyond the data stay.
WriteAt(old, data) ==
    IF Len(data) >= Len(old) THEN data
    ELSE data \o SubSeq(old, Len(data) + 1, Len(old))

\* The processes inside Put for name n.
Putting(n) == { q \in Procs : procs[q].op = "put" /\ procs[q].name = n }
\* The processes inside Get for name n that have not read the file yet.
Reading(n) == { q \in Procs : procs[q].op = "get" /\ procs[q].name = n
                               /\ procs[q].pc = "read" }

cacheFrame == <<envVars, invVars, ctx, doVars, repVars, pollVars, egVars, provVars, auxVars>>

\* Put(name, e): os.MkdirAll, data, _ := json.Marshal(e).  (History: the
\* entry is one that a Get under way for the name may now return.)
PutBegin ==
    \E p \in Procs, n \in Names, e \in CacheEntries :
        /\ procs[p].pc = "idle"
        /\ procs' = [q \in Procs |->
                       IF q = p
                       THEN [op |-> "put", name |-> n, pc |-> "open",
                             data |-> Marshal(e), entry |-> e,
                             got |-> <<>>, may |-> {}]
                       ELSE IF q \in Reading(n)
                       THEN [procs[q] EXCEPT !.may = @ \cup {e}]
                       ELSE procs[q]]
        /\ UNCHANGED <<files, written, cacheFrame>>

\* os.WriteFile, first half: OpenFile(name, O_WRONLY|O_CREATE|O_TRUNC, perm)
\* leaves an empty file, whatever it held.
PutOpen ==
    \E p \in Procs :
        /\ procs[p].op = "put" /\ procs[p].pc = "open"
        /\ files' = [files EXCEPT ![procs[p].name] = <<>>]
        /\ procs' = [procs EXCEPT ![p].pc = "write"]
        /\ UNCHANGED <<written, cacheFrame>>

\* os.WriteFile, second half: f.Write(data) at the descriptor's own offset,
\* 0, then Close; Put returns.
PutWrite ==
    \E p \in Procs :
        /\ procs[p].op = "put" /\ procs[p].pc = "write"
        /\ files' = [files EXCEPT ![procs[p].name] = WriteAt(@, procs[p].data)]
        /\ written' = [written EXCEPT ![procs[p].name] =
                          [last |-> procs[p].entry, all |-> @.all \cup {procs[p].entry}]]
        /\ procs' = [procs EXCEPT ![p] = NoProc]
        /\ UNCHANGED cacheFrame

\* What Get(name) returns on the directory as it is: nil when os.ReadFile
\* fails (no file), nil when json.Unmarshal fails, otherwise &e.
GetResult(n) ==
    IF files[n] = NoFile THEN NilEntry ELSE Unmarshal(files[n])

\* Get(name) is entered.  (History: what it may return is the entry of the
\* last Put that returned, or that of a Put under way.)
GetBegin ==
    \E p \in Procs, n \in Names :
        /\ procs[p].pc = "idle"
        /\ procs' = [procs EXCEPT ![p] =
                       [op |-> "get", name |-> n, pc |-> "read",
                        data |-> <<>>, entry |-> <<>>, got |-> <<>>,
                        may |-> {written[n].last}
                                \cup { procs[q].entry : q \in Putting(n) }]]
        /\ UNCHANGED <<files, written, cacheFrame>>

\* data, err := os.ReadFile(path(name)) and json.Unmarshal(data, &e).
GetRead ==
    \E p \in Procs :
        /\ procs[p].op = "get" /\ procs[p].pc = "read"
        /\ procs' = [procs EXCEPT ![p].pc = "done",
                                  ![p].data = files[procs[p].name],
                                  ![p].got = GetResult(procs[p].name)]
        /\ UNCHANGED <<files, written, cacheFrame>>

\* Get has returned; the caller goes on.
GetReturn ==
    \E p \in Procs :
        /\ procs[p].op = "get" /\ procs[p].pc = "done"
        /\ procs' = [procs EXCEPT ![p] = NoProc]
        /\ UNCHANGED <<files, written, cacheFrame>>

InitCache ==
    /\ instStatus = "ABSENT" /\ cache = NoEntry /\ pubKey = ""
    /\ ctx = "background"
    /\ InvIdle /\ DoIdle /\ RepIdle /\ PollIdle /\ FsIdle /\ EgIdle /\ ProvIdle /\ AuxIdle

NextCache ==
    \/ PutBegin \/ PutOpen \/ PutWrite
    \/ GetBegin \/ GetRead \/ GetReturn

SpecCache == InitCache /\ [][NextCache]_vars

-----------------------------------------------------------------------------
(* egress.ResolveDomains, called with every mode and list.                 *)

\* The longest list of domains: a preset's, and the configured extras.
MaxList == 2
DomainNames == {"a.com", "b.com"}
\* "agent" is a preset of presets.toml, "other" is no preset.
Modes == {"unrestricted", "allowlist", "agent", "other"}

\* The lists of at most n domains, and the slices: nil or one of them.
ListsUpTo(n) == UNION { [1..k -> DomainNames] : k \in 0..n }
Slices(n)    == {NilSlice} \cup { Slice(s) : s \in ListsUpTo(n) }

\* append(s, d): the result is never nil.
Append1(s, d) == Slice(Append(s.elems, d))

rdFrame == <<envVars, invVars, ctx, doVars, repVars, pollVars, fsVars, box, net,
            provVars, auxVars>>

\* The state at the call: the arguments, and PresetDomains(egress), which is
\* presets[egress].Domains or nil when there is no such preset.
InitResolve ==
    /\ instStatus = "ABSENT" /\ cache = NoEntry /\ pubKey = ""
    /\ ctx = "background"
    /\ InvIdle /\ DoIdle /\ RepIdle /\ PollIdle /\ FsIdle /\ ProvIdle /\ AuxIdle
    /\ box = NoBox /\ net = NoNet
    /\ \E e \in Modes, a \in Slices(MaxList), pr \in Slices(MaxList) :
          rd = [NoCall EXCEPT !.pc = "switch", !.egress = e, !.allow = a,
                              !.preset = IF e = "agent" THEN pr ELSE NilSlice]

\* switch egress: "unrestricted" returns nil, "allowlist" returns allow, any
\* other value starts the merge with an empty seen map and a nil merged.
ResolveSwitch ==
    /\ rd.pc = "switch"
    /\ rd' = IF rd.egress = "unrestricted"
             THEN [rd EXCEPT !.pc = "ret", !.out = NilSlice]
             ELSE IF rd.egress = "allowlist"
             THEN [rd EXCEPT !.pc = "ret", !.out = rd.allow]
             ELSE [rd EXCEPT !.pc = "preset", !.i = 1]
    /\ UNCHANGED rdFrame

\* One turn of a loop of the merge over list l: a domain not seen yet is
\* marked and appended.
MergeTurn(l) ==
    LET d == l.elems[rd.i]
    IN  IF d \in rd.seen
        THEN [rd EXCEPT !.i = @ + 1]
        ELSE [rd EXCEPT !.i = @ + 1, !.seen = @ \cup {d},
                        !.merged = Append1(rd.merged, d)]

\* for _, d := range PresetDomains(egress) { ... }
ResolvePresetLoop ==
    /\ rd.pc = "preset"
    /\ rd' = IF rd.i <= Len(rd.preset.elems)
             THEN MergeTurn(rd.preset)
             ELSE [rd EXCEPT !.pc = "allow", !.i = 1]
    /\ UNCHANGED rdFrame

\* for _, d := range allow { ... }; return merged
ResolveAllowLoop ==
    /\ rd.pc = "allow"
    /\ rd' = IF rd.i <= Len(rd.allow.elems)
             THEN MergeTurn(rd.allow)
             ELSE [rd EXCEPT !.pc = "ret", !.out = rd.merged]
    /\ UNCHANGED rdFrame

NextResolve == ResolveSwitch \/ ResolvePresetLoop \/ ResolveAllowLoop

SpecResolve == InitResolve /\ [][NextResolve]_vars

-----------------------------------------------------------------------------
(* The network subcommands set, allow and deny, from the point where       *)
(* resolveNetworkContext has returned a context, one command after another *)
(* on one container.                                                       *)

\* The longest domains file the container starts with, in characters, and
\* the number of commands run on it.
MaxContent == 2
MaxCmds == 2

\* File contents are sequences of characters: two one-letter domains, the
\* newline and the space.
NL == "\n"
NetChars == {"a", "x", NL, " "}
Contents == UNION { [1..k -> NetChars] : k \in 0..MaxContent }
DomainArgs == { <<"a">>, <<"x">> }

\* strings.TrimSpace
TrimSpace(s) ==
    LET ks == { k \in 1..Len(s) : s[k] \notin {NL, " "} }
    IN  IF ks = {} THEN <<>>
        ELSE SubSeq(s, CHOOSE k \in ks : \A m \in ks : k <= m,
                       CHOOSE k \in ks : \A m \in ks : k >= m)

\* strings.Split(s, "\n"): the empty string gives one empty line.
RECURSIVE SplitNL(_)
SplitNL(s) ==
    LET ks == { k \in 1..Len(s) : s[k] = NL }
    IN  IF ks = {} THEN << s >>
        ELSE LET k == CHOOSE k \in ks : \A m \in ks : k <= m
             IN  << SubSeq(s, 1, k - 1) >> \o SplitNL(SubSeq(s, k + 1, Len(s)))

\* strings.Join(lines, "\n")
RECURSIVE JoinNL(_)
JoinNL(ls) ==
    IF ls = <<>> THEN <<>>
    ELSE IF Len(ls) = 1 THEN ls[1]
    ELSE ls[1] \o <<NL>> \o JoinNL(Tail(ls))

\* egress.DomainsFileContent
DomainsFileContent(domains) == JoinNL(domains) \o <<NL>>

\* Whether some line of the lines, trimmed, is the domain.
HasLine(lines, domain) == \E i \in 1..Len(lines) : TrimSpace(lines[i]) = domain

\* runNetworkAllow: current with the domain appended.
Appended(current, domain) ==
    (IF current # <<>> THEN current \o <<NL>> ELSE <<>>) \o domain \o <<NL>>

\* runNetworkDeny: the lines kept.
Kept(lines, domain) == SelectSeq(lines, LAMBDA l : TrimSpace(l) # domain)

netFrame == <<envVars, invVars, ctx, doVars, repVars, pollVars, fsVars, rd,
             provVars, auxVars>>

\* The container as a command finds it: never configured, or restricted by an
\* earlier `set`, with any domains file.
InitNet ==
    /\ instStatus = "ABSENT" /\ cache = NoEntry /\ pubKey = ""
    /\ ctx = "background"
    /\ InvIdle /\ DoIdle /\ RepIdle /\ PollIdle /\ FsIdle /\ ProvIdle /\ AuxIdle
    /\ rd = NoCall /\ net = NoNet
    /\ \E c \in Contents \cup {NoDomains}, k \in BOOLEAN, s \in BOOLEAN :
          box = [domains |-> c, cidrs |-> k, nftconf |-> s, script |-> s,
                 rules |-> s, sudoers |-> IF s THEN "restricted" ELSE "open"]

NetLogged(n, op) == [n EXCEPT !.log = Append(@, op)]
NetErr(n) == [n EXCEPT !.pc = "ret", !.result = "err"]
NetOk(n)  == [n EXCEPT !.pc = "ret", !.result = "ok"]

\* A command is started: name and mode or domain are its arguments; an
\* invalid mode is refused before anything else.
NetBegin ==
    /\ net.pc = "idle" /\ net.n < MaxCmds
    /\ \E c \in {"set", "allow", "deny"} :
       \E a \in IF c = "set" THEN {"unrestricted", "agent", "allowlist", "bogus"}
                ELSE DomainArgs :
          net' = [net EXCEPT
                    !.cmd = c, !.arg = a, !.n = @ + 1, !.start = box.domains,
                    !.out = <<>>, !.cur = <<>>, !.log = <<>>,
                    !.result = IF a = "bogus" THEN "err" ELSE "none",
                    !.pc = IF a = "bogus" THEN "ret"
                           ELSE IF c = "set" /\ a = "unrestricted" THEN "v_unres"
                           ELSE IF c = "set" THEN "v_infra"
                           ELSE IF c = "allow" THEN "a_ensure"
                           ELSE "y_read"]
    /\ UNCHANGED <<box, netFrame>>

\* set unrestricted: `nft flush ruleset`, `rm -f` of the domains file,
\* nftables.conf and the resolve script, and the open sudoers file, each over
\* SSH with its result dropped; return nil.
SetUnrestricted ==
    /\ net.pc = "v_unres"
    /\ \E f1 \in BOOLEAN, f2 \in BOOLEAN, f3 \in BOOLEAN :
          /\ box' = [box EXCEPT
                       !.rules   = IF f1 THEN FALSE ELSE @,
                       !.domains = IF f2 THEN NoDomains ELSE @,
                       !.nftconf = IF f2 THEN FALSE ELSE @,
                       !.script  = IF f2 THEN FALSE ELSE @,
                       !.sudoers = IF f3 THEN "open" ELSE @]
          /\ net' = NetOk(NetLogged(net, [op |-> "unrestricted",
                                          flush |-> f1, rm |-> f2, sudo |-> f3]))
    /\ UNCHANGED netFrame

\* writeEgressInfra: nftables.conf, then the resolve script, each written
\* through the API and each error returned; the package install's result is
\* dropped.  The outcomes: the container after it, and whether it succeeded.
WriteInfraOutcomes(b) ==
    { << b, FALSE >>,
      << [b EXCEPT !.nftconf = TRUE], FALSE >>,
      << [b EXCEPT !.nftconf = TRUE, !.script = TRUE], TRUE >> }

\* set agent|allowlist: writeEgressInfra.
SetWriteInfra ==
    /\ net.pc = "v_infra"
    /\ \E o \in WriteInfraOutcomes(box) :
          /\ box' = o[1]
          /\ net' = IF o[2] THEN [net EXCEPT !.pc = "v_domains"] ELSE NetErr(net)
    /\ UNCHANGED netFrame

\* domains := egress.ResolveDomains(mode, cfg.Network.Allow), written as
\* DomainsFileContent(domains); then the CIDRs file if the preset has any
\* (only a preset has: PresetCIDRs of "allowlist" is nil).
SetWriteDomains ==
    /\ net.pc = "v_domains"
    /\ \/ net' = NetErr(net) /\ box' = box
       \/ \E ds \in { <<>>, << <<"a">> >>, << <<"a">>, <<"x">> >> },
             hasCIDRs \in IF net.arg = "agent" THEN BOOLEAN ELSE {FALSE} :
            \/ /\ box' = [box EXCEPT !.domains = DomainsFileContent(ds),
                                     !.cidrs = IF hasCIDRs THEN TRUE ELSE @]
               /\ net' = NetLogged([net EXCEPT !.pc = "v_resolve"], [op |-> "write"])
            \/ /\ hasCIDRs
               /\ box' = [box EXCEPT !.domains = DomainsFileContent(ds)]
               /\ net' = NetErr(NetLogged(net, [op |-> "write"]))
    /\ UNCHANGED netFrame

\* sshAsRoot of /usr/local/bin/pixels-resolve-egress.sh: the script exits 0
\* without touching the rules when there is no domains file, and otherwise
\* loads nftables.conf and fills the set; it cannot succeed without the
\* script file, nor load rules without nftables.conf.  An error or a
\* non-zero exit code leaves the rules as they are, or loaded in part.
ResolveOk(b) == b.script /\ (b.domains = NoDomains \/ b.nftconf)
AfterResolve(b) == IF b.domains = NoDomains THEN b ELSE [b EXCEPT !.rules = TRUE]
Resolve(after) ==
    \/ /\ ResolveOk(box)
       /\ box' = AfterResolve(box)
       /\ net' = NetLogged(after, [op |-> "resolve"])
    \/ /\ box' = box
       /\ net' = NetErr(net)

SetResolve ==
    /\ net.pc = "v_resolve"
    /\ Resolve([net EXCEPT !.pc = "v_sudo"])
    /\ UNCHANGED netFrame

\* The safe-apt wrapper and the restricted sudoers file, written through the
\* API, each error returned.
SetSudoers ==
    /\ net.pc = "v_sudo"
    /\ \/ net' = NetErr(net) /\ box' = box
       \/ net' = NetOk(net) /\ box' = [box EXCEPT !.sudoers = "restricted"]
    /\ UNCHANGED netFrame

\* ensureEgressFiles: nothing when `test -f` of the resolve script exits 0;
\* otherwise (no script, or the SSH command failed) writeEgressInfra, and
\* `touch` of the domains file with its result dropped.
AllowEnsure ==
    /\ net.pc = "a_ensure"
    /\ \/ box.script /\ box' = box /\ net' = [net EXCEPT !.pc = "a_read"]
       \/ \E o \in WriteInfraOutcomes(box), touched \in BOOLEAN :
            /\ box' = IF o[2] /\ touched /\ o[1].domains = NoDomains
                      THEN [o[1] EXCEPT !.domains = <<>>] ELSE o[1]
            /\ net' = IF o[2] THEN [net EXCEPT !.pc = "a_read"] ELSE NetErr(net)
    /\ UNCHANGED netFrame

\* out, err := ssh.Output(ctx, ip, "root", key, ["cat", "/etc/pixels-egress-domains"])
ReadDomains(next) ==
    \/ /\ box.domains # NoDomains
       /\ net' = [net EXCEPT !.pc = next, !.out = box.domains]
    \/ net' = NetErr(net)

AllowRead ==
    /\ net.pc = "a_read"
    /\ ReadDomains("a_check")
    /\ UNCHANGED <<box, netFrame>>

\* A deliberately wrong variant: the domain is appended whether or not a
\* line holds it already.
AllowCheckAlwaysAppends ==
    /\ net.pc = "a_check"
    /\ net' = [net EXCEPT !.pc = "a_write",
                          !.cur = Appended(TrimSpace(net.out), net.arg)]
    /\ UNCHANGED <<box, netFrame>>

\* A deliberately wrong variant: the domain is put before the others.
AllowCheckPrepends ==
    /\ net.pc = "a_check"
    /\ net' = IF HasLine(SplitNL(TrimSpace(net.out)), net.arg)
              THEN NetOk(net)
              ELSE [net EXCEPT !.pc = "a_write",
                               !.cur = net.arg \o <<NL>> \o TrimSpace(net.out) \o <<NL>>]
    /\ UNCHANGED <<box, netFrame>>

\* current := strings.TrimSpace(string(out)); a line equal to the domain
\* ends the command with nil; otherwise the domain is appended.
AllowCheck ==
    /\ net.pc = "a_check"
    /\ net' = IF HasLine(SplitNL(TrimSpace(net.out)), net.arg)
              THEN NetOk(net)
              ELSE [net EXCEPT !.pc = "a_write",
                               !.cur = Appended(TrimSpace(net.out), net.arg)]
    /\ UNCHANGED <<box, netFrame>>

\* nc.client.WriteContainerFile(ctx, cname, "/etc/pixels-egress-domains", ...)
WriteDomains(next) ==
    \/ /\ box' = [box EXCEPT !.domains = net.cur]
       /\ net' = NetLogged([net EXCEPT !.pc = next], [op |-> "write"])
    \/ /\ box' = box
       /\ net' = NetErr(net)

AllowWrite ==
    /\ net.pc = "a_write"
    /\ WriteDomains("a_resolve")
    /\ UNCHANGED netFrame

\* A deliberately wrong variant: success without running the script.
AllowResolveSkipped ==
    /\ net.pc = "a_resolve"
    /\ net' = NetOk(net) /\ box' = box
    /\ UNCHANGED netFrame

\* Re-resolve, then return nil.
AllowResolve ==
    /\ net.pc = "a_resolve"
    /\ Resolve(NetOk(net))
    /\ UNCHANGED netFrame

\* Read for deny: an error means no egress policy is configured.
DenyRead ==
    /\ net.pc = "y_read"
    /\ ReadDomains("y_filter")
    /\ UNCHANGED <<box, netFrame>>

\* A deliberately wrong variant: a domain that is not there is not an error.
DenyFilterIgnoresAbsent ==
    /\ net.pc = "y_filter"
    /\ net' = [net EXCEPT !.pc = "y_write",
                  !.cur = JoinNL(Kept(SplitNL(TrimSpace(net.out)), net.arg)) \o <<NL>>]
    /\ UNCHANGED <<box, netFrame>>

\* The lines other than the domain are kept; a domain found on no line is
\* an error; content := strings.Join(kept, "\n") + "\n".
DenyFilter ==
    /\ net.pc = "y_filter"
    /\ LET lines == SplitNL(TrimSpace(net.out))
       IN  net' = IF ~HasLine(lines, net.arg) THEN NetErr(net)
                  ELSE [net EXCEPT !.pc = "y_write",
                           !.cur = JoinNL(Kept(lines, net.arg)) \o <<NL>>]
    /\ UNCHANGED <<box, netFrame>>

DenyWrite ==
    /\ net.pc = "y_write"
    /\ WriteDomains("y_resolve")
    /\ UNCHANGED netFrame

\* Re-resolve (a full reload), then return nil.
DenyResolve ==
    /\ net.pc = "y_resolve"
    /\ Resolve(NetOk(net))
    /\ UNCHANGED netFrame

\* The command has returned.  (History: what it was, what the domains file
\* held when it began, and whether it wrote the file.)
NetReturn ==
    /\ net.pc = "ret"
    /\ net' = [net EXCEPT !.pc = "idle",
                  !.last = [cmd |-> net.cmd, arg |-> net.arg, start |-> net.start,
                            result |-> net.result,
                            wrote |-> \E i \in 1..Len(net.log) : net.log[i].op = "write"]]
    /\ UNCHANGED <<box, netFrame>>

NextNet ==
    \/ NetBegin \/ NetReturn
    \/ SetUnrestricted \/ SetWriteInfra \/ SetWriteDomains \/ SetResolve \/ SetSudoers
    \/ AllowEnsure \/ AllowRead \/ AllowCheck \/ AllowWrite \/ AllowResolve
    \/ DenyRead \/ DenyFilter \/ DenyWrite \/ DenyResolve

SpecNet == InitNet /\ [][NextNet]_vars

-----------------------------------------------------------------------------
(* The second-stage provisioning script that Script(steps) renders from    *)
(* provisionTmpl, run by /bin/sh under `set -eu`, and the zmx sessions of   *)
(* its steps.                                                              *)

\* Steps(egress, devtools): px-devtools if devtools, then px-egress, which
\* has a finalize script, if egress is agent or allowlist.
PxDevtools == <<"p","x","-","d","e","v","t","o","o","l","s">>
PxEgress   == <<"p","x","-","e","g","r","e","s","s">>
Steps(egress, devtools) ==
    (IF devtools THEN << [Name |-> PxDevtools, Finalize |-> FALSE] >> ELSE <<>>)
    \o (IF egress \in {"agent", "allowlist"}
        THEN << [Name |-> PxEgress, Finalize |-> TRUE] >> ELSE <<>>)

\* The exit codes a step's session ends with, as zmx prints them; NotEnded
\* for a session that is running.
ExitCodes == { <<"0">>, <<"1">>, <<"1","0">> }
NotEnded  == <<"-">>

\* `zmx list`: one line per session, tab-separated key=value fields.
TAB == "\t"
SessionLine(name, code) ==
    <<"session_name=">> \o name \o <<TAB>> \o
    (IF code = NotEnded THEN <<"pid=", "1">>
     ELSE <<"task_ended_at=", "1", "0", "0", TAB, "task_exit_code=">> \o code)

\* grep: whether the pattern stands somewhere in the line.
Contains(line, pat) ==
    \E k \in 1..(Len(line) - Len(pat) + 1) : SubSeq(line, k, k + Len(pat) - 1) = pat

\* zmx list | grep 'session_name=<name>' | grep -q 'task_exit_code=0'
CheckPasses(name) ==
    \E j \in 1..Len(prov.steps) :
        LET line == SessionLine(prov.steps[j].Name, prov.code[j])
        IN  /\ prov.code[j] # <<>>
            /\ Contains(line, <<"session_name=">> \o name)
            /\ Contains(line, <<"task_exit_code=", "0">>)

scriptFrame == <<envVars, invVars, ctx, doVars, repVars, pollVars, fsVars, egVars, ps, auxVars>>

InitScript ==
    /\ instStatus = "ABSENT" /\ cache = NoEntry /\ pubKey = ""
    /\ ctx = "background"
    /\ InvIdle /\ DoIdle /\ RepIdle /\ PollIdle /\ FsIdle /\ EgIdle /\ AuxIdle
    /\ ps = NoPoll
    /\ \E e \in {"unrestricted", "agent", "allowlist"}, d \in BOOLEAN, s \in BOOLEAN :
          prov = [NoRun EXCEPT !.pc = "guard", !.steps = Steps(e, d), !.sentinel = s,
                               !.code = [j \in 1..Len(Steps(e, d)) |-> <<>>]]

ScriptExit(r) == [prov EXCEPT !.pc = "exited", !.exit = r]

\* The sentinel check, the wait for the first stage, and the installation
\* of zmx: a failing command ends the script (set -e).
ScriptGuard ==
    /\ prov.pc = "guard"
    /\ prov' \in IF prov.sentinel THEN { ScriptExit("skipped") }
                 ELSE { ScriptExit("failed"), [prov EXCEPT !.pc = "run", !.i = 1] }
    /\ UNCHANGED scriptFrame

\* zmx run <name> <script> for each step in turn: the session starts and the
\* command returns, or it fails and the script ends.
ScriptRun ==
    /\ prov.pc = "run"
    /\ prov' \in IF prov.i <= Len(prov.steps)
                 THEN { ScriptExit("failed"),
                        [prov EXCEPT !.i = @ + 1, !.code[prov.i] = NotEnded] }
                 ELSE { [prov EXCEPT !.pc = "wait"] }
    /\ UNCHANGED scriptFrame

\* A step's session ends with an exit code.
StepEnds ==
    /\ \E j \in 1..Len(prov.steps), c \in ExitCodes :
          /\ prov.code[j] = NotEnded
          /\ prov' = [prov EXCEPT !.code[j] = c]
    /\ UNCHANGED scriptFrame

\* zmx wait <names>: returns once every session has ended; a non-zero exit
\* ends the script.
ScriptWait ==
    /\ prov.pc = "wait"
    /\ \/ /\ \A j \in 1..Len(prov.steps) : prov.code[j] # NotEnded
          /\ prov' = [prov EXCEPT !.pc = "check", !.i = 1]
       \/ prov' = ScriptExit("failed")
    /\ UNCHANGED scriptFrame

\* A deliberately wrong variant: the exit codes are not looked at.
ScriptCheckSkipped ==
    /\ prov.pc = "check"
    /\ prov' = [prov EXCEPT !.pc = "finalize", !.i = 1]
    /\ UNCHANGED scriptFrame

\* For each step in turn, the grep of its line for exit code 0, or
\* `<name> failed`, cleanup, exit 1.
ScriptCheck ==
    /\ prov.pc = "check"
    /\ prov' = IF prov.i > Len(prov.steps) THEN [prov EXCEPT !.pc = "finalize", !.i = 1]
               ELSE IF CheckPasses(prov.steps[prov.i].Name) THEN [prov EXCEPT !.i = @ + 1]
               ELSE ScriptExit("failed")
    /\ UNCHANGED scriptFrame

\* For each step in turn, its finalize script, if it has one; a failing one
\* ends the script.  After the last: cleanup and the sentinel.
ScriptFinalize ==
    /\ prov.pc = "finalize"
    /\ prov' \in
         IF prov.i > Len(prov.steps)
         THEN { [ScriptExit("complete") EXCEPT !.sentinel = TRUE] }
         ELSE IF ~prov.steps[prov.i].Finalize THEN { [prov EXCEPT !.i = @ + 1] }
         ELSE { [prov EXCEPT !.i = @ + 1,
                             !.finalized = Append(@, prov.steps[prov.i].Name)],
                [ScriptExit("failed") EXCEPT
                             !.finalized = Append(@, prov.steps[prov.i].Name)] }
    /\ UNCHANGED scriptFrame

\* trap 'cleanup; exit 0' TERM INT
ScriptSignal ==
    /\ prov.pc \in {"run", "wait", "check", "finalize"}
    /\ prov' = ScriptExit("signalled")
    /\ UNCHANGED scriptFrame

NextScript ==
    \/ ScriptGuard \/ ScriptRun \/ StepEnds \/ ScriptWait \/ ScriptCheck
    \/ ScriptFinalize \/ ScriptSignal

SpecScript == InitScript /\ [][NextScript]_vars

-----------------------------------------------------------------------------
(* Runner.PollStatus, called with every list of names on every output of   *)
(* `zmx list`.                                                             *)

\* The longest list of names, and the most lines of output.
MaxNames == 2
MaxLines == 2

\* Session names: two with the prefix "px-", one without.
PxA == <<"px-", "a">>
PxB == <<"px-", "b">>
Web == <<"web">>
SessionNames == {PxA, PxB, Web}
\* strings.HasPrefix(name, "px-")
HasPxPrefix(name) == Len(name) > 0 /\ name[1] = "px-"

\* The lines of output, as their tab-separated fields: for each name a
\* running session, one ended with code 0 and one ended with code 1; and a
\* line that does not begin with session_name=.
Field(k, v) == [k |-> k, v |-> v]
ListLines ==
    UNION { { << Field("session_name", n), Field("pid", <<"1">>) >>,
              << Field("session_name", n), Field("task_ended_at", <<"100">>),
                 Field("task_exit_code", <<"0">>) >>,
              << Field("session_name", n), Field("task_ended_at", <<"100">>),
                 Field("task_exit_code", <<"1">>) >> } : n \in SessionNames }
    \cup { << Field("pid", <<"1">>), Field("session_name", PxA),
              Field("task_ended_at", <<"100">>) >> }

\* fields[k] of a line: the value of the last field with that key, "" if
\* there is none.
FieldOf(line, k) ==
    LET js == { j \in 1..Len(line) : line[j].k = k }
    IN  IF js = {} THEN <<>>
        ELSE line[CHOOSE j \in js : \A m \in js : j >= m].v

\* ParseSessions: a line that does not begin with session_name= is skipped;
\* the others give a Session each, in order.
RECURSIVE ParseSessions(_)
ParseSessions(raw) ==
    IF raw = <<>> THEN <<>>
    ELSE (IF Head(raw)[1].k # "session_name" THEN <<>>
          ELSE << [Name     |-> FieldOf(Head(raw), "session_name"),
                   EndedAt  |-> FieldOf(Head(raw), "task_ended_at"),
                   ExitCode |-> FieldOf(Head(raw), "task_exit_code")] >>)
         \o ParseSessions(Tail(raw))

\* state[name] after the loop over the sessions: the last session of that
\* name among those with the prefix; NoSession when the map has no such key.
NoSession == [Name |-> <<>>, EndedAt |-> <<>>, ExitCode |-> <<>>]
StateOf(sessions, name) ==
    LET js == { j \in 1..Len(sessions) :
                  sessions[j].Name = name /\ HasPxPrefix(sessions[j].Name) }
    IN  IF js = {} THEN NoSession
        ELSE sessions[CHOOSE j \in js : \A m \in js : j >= m]

psFrame == <<envVars, invVars, ctx, doVars, repVars, pollVars, fsVars, egVars, prov, auxVars>>

InitPollStatus ==
    /\ instStatus = "ABSENT" /\ cache = NoEntry /\ pubKey = ""
    /\ ctx = "background"
    /\ InvIdle /\ DoIdle /\ RepIdle /\ PollIdle /\ FsIdle /\ EgIdle /\ AuxIdle
    /\ prov = NoRun
    /\ \E ns \in UNION { [1..k -> SessionNames] : k \in 0..MaxNames },
          raw \in UNION { [1..k -> ListLines] : k \in 0..MaxLines },
          e \in BOOLEAN :
          /\ e => raw = <<>>
          /\ ps = [NoPoll EXCEPT !.pc = "list", !.names = ns, !.raw = raw,
                                 !.listErr = e]

\* raw, err := r.List(ctx): an error returns ("", false); otherwise the
\* sessions are parsed, the map is built, and allDone starts true.
PollStatusList ==
    /\ ps.pc = "list"
    /\ ps' = IF ps.listErr
             THEN [ps EXCEPT !.pc = "ret", !.allDone = FALSE]
             ELSE [ps EXCEPT !.pc = "loop", !.i = 1, !.allDone = TRUE,
                             !.state = ParseSessions(ps.raw)]
    /\ UNCHANGED psFrame

\* A deliberately wrong variant: a failed step counts as not done.
PollStatusLoopFailedNotDone ==
    /\ ps.pc = "loop"
    /\ ps' = IF ps.i > Len(ps.names) THEN [ps EXCEPT !.pc = "ret"]
             ELSE LET s == StateOf(ps.state, ps.names[ps.i])
                  IN  IF s = NoSession \/ s.EndedAt = <<>> \/ s.ExitCode # <<"0">>
                      THEN [ps EXCEPT !.i = @ + 1, !.allDone = FALSE,
                                      !.parts = Append(@, "not done")]
                      ELSE [ps EXCEPT !.i = @ + 1, !.parts = Append(@, "done")]
    /\ UNCHANGED psFrame

\* One turn of `for _, name := range names`: pending or running clears
\* allDone, failed and done leave it; after the last name the function
\* returns.
PollStatusLoop ==
    /\ ps.pc = "loop"
    /\ ps' = IF ps.i > Len(ps.names) THEN [ps EXCEPT !.pc = "ret"]
             ELSE LET s == StateOf(ps.state, ps.names[ps.i])
                  IN  IF s = NoSession
                      THEN [ps EXCEPT !.i = @ + 1, !.allDone = FALSE,
                                      !.parts = Append(@, "pending")]
                      ELSE IF s.EndedAt = <<>>
                      THEN [ps EXCEPT !.i = @ + 1, !.allDone = FALSE,
                                      !.parts = Append(@, "running")]
                      ELSE IF s.ExitCode # <<"0">>
                      THEN [ps EXCEPT !.i = @ + 1, !.parts = Append(@, "failed")]
                      ELSE [ps EXCEPT !.i = @ + 1, !.parts = Append(@, "done")]
    /\ UNCHANGED psFrame

NextPollStatus == PollStatusList \/ PollStatusLoop

SpecPollStatus == InitPollStatus /\ [][NextPollStatus]_vars

-----------------------------------------------------------------------------
(* resolveIP(instance) on its own.                                         *)

oldVars == <<envVars, invVars, doVars, repVars, pollVars, fsVars, egVars,
             provVars>>
riFrame == <<oldVars, ctx, wr, wp, pv, jt>>

\* The longest alias list resolveIP is tried on.
MaxAliases == 2

\* An alias is a type and an address of that type's family; the address of
\* an interface that has none yet is the empty string.
AliasTypes == {"INET", "ipv4", "INET6"}
V4Addrs    == {"10.0.0.5", "10.0.0.6"}
V6Addrs    == {"fe80::1"}
AliasSet ==
    { a \in [Type : AliasTypes, Address : V4Addrs \cup V6Addrs \cup {""}] :
        a.Address # "" =>
            (a.Address \in V6Addrs <=> a.Type = "INET6") }
AliasLists == UNION { [1..n -> AliasSet] : n \in 0..MaxAliases }

InitResolveIP ==
    /\ instStatus = "ABSENT" /\ cache = NoEntry /\ pubKey = ""
    /\ ctx = "background"
    /\ InvIdle /\ DoIdle /\ RepIdle /\ PollIdle /\ FsIdle /\ EgIdle /\ ProvIdle
    /\ wr = Unused /\ wp = Unused /\ pv = Unused /\ jt = Unused
    /\ \E l \in AliasLists : ri = [pc |-> "call", Aliases |-> l, out |-> ""]

ResolveIPCall ==
    /\ ri.pc = "call"
    /\ ri' = [ri EXCEPT !.pc = "ret", !.out = resolveIP(ri)]
    /\ UNCHANGED riFrame

NextResolveIP == ResolveIPCall

SpecResolveIP == InitResolveIP /\ [][NextResolveIP]_vars

-----------------------------------------------------------------------------
(* ssh.WaitReady(ctx, host, timeout, log).  Time is counted in ticker       *)
(* periods of 500ms.                                                       *)

wrFrame == <<oldVars, ri, wp, pv, jt>>

\* The longest timeout WaitReady is called with, in ticker periods.
MaxWait == 2
\* net.DialTimeout's limit of 2 seconds, in ticker periods.
DialLimit == 4
\* The clock is not followed further than one dial past the longest timeout.
WrMaxClock == MaxWait + DialLimit

InitWaitReady ==
    /\ instStatus = "ABSENT" /\ cache = NoEntry /\ pubKey = ""
    /\ InvIdle /\ DoIdle /\ RepIdle /\ PollIdle /\ FsIdle /\ EgIdle /\ ProvIdle
    /\ ri = Unused /\ wp = Unused /\ pv = Unused /\ jt = Unused
    /\ ctx \in {"background", "live", "cancelled"}
    /\ \E t \in 0..MaxWait :
         wr = [pc |-> "enter", timeout |-> t, clock |-> 0, tickAt |-> 0,
               tickerC |-> FALSE, dialT |-> 0, dials |-> <<>>, res |-> "none"]

WrCtxDone       == ctx = "cancelled"
WrDeadlineReady == wr.clock >= wr.timeout
WrNothingReady  == ~WrCtxDone /\ ~WrDeadlineReady /\ ~wr.tickerC

\* deadline := time.After(timeout); ticker := time.NewTicker(500ms): the
\* first tick comes one period after the call.
WrEnter ==
    /\ wr.pc = "enter"
    /\ wr' = [wr EXCEPT !.pc = "select", !.tickAt = wr.clock + 1]
    /\ UNCHANGED <<ctx, wrFrame>>

\* One period passes, while the select waits with no case ready or while a
\* dial is under way and has not reached its limit.  The ticker puts a tick
\* in its channel, which holds one.
WrTime ==
    /\ \/ wr.pc = "select" /\ WrNothingReady
       \/ wr.pc = "dial" /\ wr.dialT < DialLimit
    /\ wr.clock < WrMaxClock
    /\ wr' = [wr EXCEPT !.clock = wr.clock + 1,
                        !.dialT = IF wr.pc = "dial" THEN wr.dialT + 1 ELSE wr.dialT,
                        !.tickerC = wr.tickerC \/ wr.clock + 1 >= wr.tickAt,
                        !.tickAt = IF wr.clock + 1 >= wr.tickAt
                                   THEN wr.tickAt + 1 ELSE wr.tickAt]
    /\ UNCHANGED <<ctx, wrFrame>>

\* case <-ctx.Done(): return ctx.Err()
WrSelectCtx ==
    /\ wr.pc = "select" /\ WrCtxDone
    /\ wr' = [wr EXCEPT !.pc = "ret", !.res = "ctxerr"]
    /\ UNCHANGED <<ctx, wrFrame>>

\* A deliberately wrong variant: the deadline case does not return.
WrSelectDeadlineIgnored ==
    /\ wr.pc = "select" /\ WrDeadlineReady
    /\ UNCHANGED vars

\* case <-deadline: return fmt.Errorf("ssh not ready on %s after %s", ...)
WrSelectDeadline ==
    /\ wr.pc = "select" /\ WrDeadlineReady
    /\ wr' = [wr EXCEPT !.pc = "ret", !.res = "timeout"]
    /\ UNCHANGED <<ctx, wrFrame>>

\* case <-ticker.C: net.DialTimeout("tcp", host:22, 2s) is called.
WrSelectTick ==
    /\ wr.pc = "select" /\ wr.tickerC
    /\ wr' = [wr EXCEPT !.pc = "dial", !.tickerC = FALSE, !.dialT = 0,
                        !.dials = Append(wr.dials, [at |-> wr.clock, out |-> "dialing"])]
    /\ UNCHANGED <<ctx, wrFrame>>

\* The dial returns: a connection (closed, return nil) or an error (the
\* next iteration).
WrDial ==
    /\ wr.pc = "dial"
    /\ \E ok \in BOOLEAN :
         wr' = [wr EXCEPT !.pc = IF ok THEN "ret" ELSE "select",
                          !.res = IF ok THEN "nil" ELSE wr.res,
                          !.dials[Len(wr.dials)].out = IF ok THEN "ok" ELSE "err"]
    /\ UNCHANGED <<ctx, wrFrame>>

\* The caller cancels ctx.
WrCancel ==
    /\ ctx = "live" /\ wr.pc \in {"select", "dial"}
    /\ ctx' = "cancelled"
    /\ UNCHANGED <<wr, wrFrame>>

NextWaitReady ==
    \/ WrEnter \/ WrTime \/ WrSelectCtx \/ WrSelectDeadline \/ WrSelectTick
    \/ WrDial \/ WrCancel

SpecWaitReady == InitWaitReady /\ [][NextWaitReady]_vars

\* Time passes, a dial returns within its limit, and a select with a ready
\* case takes one; Go picks among the ready cases at random, so a case that
\* is ready again and again is taken.
SpecWaitReadyFair ==
    /\ InitWaitReady /\ [][NextWaitReady]_vars
    /\ WF_vars(WrEnter) /\ WF_vars(WrTime) /\ WF_vars(WrDial)
    /\ SF_vars(WrSelectCtx) /\ SF_vars(WrSelectDeadline)
    /\ WF_vars(WrSelectTick)

-----------------------------------------------------------------------------
(* A command that opens an SSH session in a container whose second-stage   *)
(* script may still be running: console, exec, create --console, and a     *)
(* bare call of Runner.WaitProvisioned under any context.                  *)

wpFrame == <<oldVars, ri, wr, pv, jt>>

\* The polls of one WaitProvisioned call are counted up to this number.
MaxPolls == 2

SessionKinds == {"console", "exec", "create", "wait"}
Restricted(egress) == egress \in {"agent", "allowlist"}

\* The container has booted and sshd is up.  stage is where the second-stage
\* script is: "none" (no script was installed), "steps" (its zmx sessions
\* run), "finalize" (every step succeeded, the finalize hooks run), "failed"
\* (it exited without the sentinel), "done" (the sentinel is there).
\* The commands run under cmd.Context(), which is never cancelled.
InitSession ==
    /\ instStatus = "RUNNING" /\ cache = NoEntry /\ pubKey = ""
    /\ InvIdle /\ DoIdle /\ RepIdle /\ PollIdle /\ FsIdle /\ EgIdle /\ ProvIdle
    /\ ri = Unused /\ wr = Unused /\ pv = Unused /\ jt = Unused
    /\ \E k \in SessionKinds, e \in {"unrestricted", "agent", "allowlist"},
          d \in BOOLEAN :
         /\ ctx \in (IF k = "wait" THEN {"background", "live", "cancelled"}
                     ELSE {"background"})
         /\ wp = [kind |-> k, egress |-> e, devtools |-> d,
                  script |-> Steps(e, d) # <<>>,
                  stage |-> IF Steps(e, d) # <<>> THEN "steps" ELSE "none",
                  locked |-> FALSE,
                  pc |-> CASE k = "wait"   -> "probe1"
                           [] k = "create" -> "probe1"
                           [] OTHER        -> "waitready",
                  polls |-> 0, probeFailed |-> FALSE, lockedAtOpen |-> FALSE]

\* The zmx sessions of the steps end: every one with code 0, or one with
\* another code, for which the script exits 1.
SessStepsEnd ==
    /\ wp.stage = "steps"
    /\ \E ok \in BOOLEAN :
         wp' = [wp EXCEPT !.stage =
                   IF ~ok THEN "failed"
                   ELSE IF Restricted(wp.egress) THEN "finalize" ELSE "done"]
    /\ UNCHANGED <<ctx, wpFrame>>

\* pixels-enable-egress.sh (set -euo pipefail) loads the rules and installs
\* the restricted sudoers file; then the script touches the sentinel.  A
\* failing command ends both scripts before that.
SessFinalizeEnd ==
    /\ wp.stage = "finalize"
    /\ \E ok \in BOOLEAN :
         wp' = [wp EXCEPT !.stage = IF ok THEN "done" ELSE "failed",
                          !.locked = ok]
    /\ UNCHANGED <<ctx, wpFrame>>

\* ssh.WaitReady(ctx, ip, 30s): console and exec return its error.
SessWaitReady ==
    /\ wp.pc = "waitready"
    /\ \E ok \in BOOLEAN : wp' = [wp EXCEPT !.pc = IF ok THEN "auth" ELSE "err"]
    /\ UNCHANGED <<ctx, wpFrame>>

\* ensureSSHAuth: its error is returned.  exec goes on to ssh.Exec, console
\* to WaitProvisioned.
SessEnsureSSHAuth ==
    /\ wp.pc = "auth"
    /\ \E ok \in BOOLEAN :
         wp' = [wp EXCEPT !.pc = IF ~ok THEN "err"
                                 ELSE IF wp.kind = "exec" THEN "open" ELSE "probe1"]
    /\ UNCHANGED <<ctx, wpFrame>>

\* r.exec.Exec(ctx, {"test ..."}) and `err == nil && code == 0`: what the
\* test finds when ssh ran it, FALSE when ssh did not.
Probe(fact, sshOk) == sshOk /\ fact

\* if r.IsProvisioned(ctx) || ... { return }
SessIsProvisioned ==
    /\ wp.pc = "probe1"
    /\ \E sshOk \in BOOLEAN :
         wp' = [wp EXCEPT !.pc = IF Probe(wp.stage = "done", sshOk)
                                 THEN "returned" ELSE "probe2",
                          !.probeFailed = ~sshOk]
    /\ UNCHANGED <<ctx, wpFrame>>

\* if ... || !r.HasProvisionScript(ctx) { return }
SessHasProvisionScript ==
    /\ wp.pc = "probe2"
    /\ \E sshOk \in BOOLEAN :
         wp' = [wp EXCEPT !.pc = IF ~Probe(wp.script, sshOk)
                                 THEN "returned" ELSE "select",
                          !.probeFailed = ~sshOk]
    /\ UNCHANGED <<ctx, wpFrame>>

\* select { case <-ctx.Done(): return; ... }
SessSelectCtx ==
    /\ wp.pc = "select" /\ ctx = "cancelled"
    /\ wp' = [wp EXCEPT !.pc = "returned"]
    /\ UNCHANGED <<ctx, wpFrame>>

\* select { ...; case <-time.After(2 * time.Second): }
SessSelectAfter ==
    /\ wp.pc = "select"
    /\ wp' = [wp EXCEPT !.pc = "poll"]
    /\ UNCHANGED <<ctx, wpFrame>>

\* if r.IsProvisioned(ctx) { return }; then the status line from r.List,
\* whatever it shows, and the next iteration.
SessPoll ==
    /\ wp.pc = "poll"
    /\ \E sshOk \in BOOLEAN :
         wp' = [wp EXCEPT !.pc = IF Probe(wp.stage = "done", sshOk)
                                 THEN "returned" ELSE "select",
                          !.polls = IF wp.polls < MaxPolls THEN wp.polls + 1
                                    ELSE wp.polls]
    /\ UNCHANGED <<ctx, wpFrame>>

\* The caller of a bare WaitProvisioned cancels ctx.
SessCancel ==
    /\ ctx = "live" /\ wp.pc \in {"probe1", "probe2", "select", "poll"}
    /\ ctx' = "cancelled"
    /\ UNCHANGED <<wp, wpFrame>>

\* WaitProvisioned has returned: console and create go on to ssh.Console.
SessReturned ==
    /\ wp.pc = "returned" /\ wp.kind \in {"console", "create"}
    /\ wp' = [wp EXCEPT !.pc = "open"]
    /\ UNCHANGED <<ctx, wpFrame>>

\* ssh.Console / ssh.Exec: the user's shell or command runs in the
\* container, as it is at that moment.
SessOpen ==
    /\ wp.pc = "open"
    /\ wp' = [wp EXCEPT !.pc = "session", !.lockedAtOpen = wp.locked]
    /\ UNCHANGED <<ctx, wpFrame>>

NextSession ==
    \/ SessStepsEnd \/ SessFinalizeEnd \/ SessWaitReady \/ SessEnsureSSHAuth
    \/ SessIsProvisioned \/ SessHasProvisionScript \/ SessSelectCtx
    \/ SessSelectAfter \/ SessPoll \/ SessCancel \/ SessReturned \/ SessOpen

SpecSession == InitSession /\ [][NextSession]_vars

\* Every call the command makes returns and the timer of the select fires;
\* the script in the container is under no obligation to go on.
SpecSessionFair ==
    /\ InitSession /\ [][NextSession]_vars
    /\ WF_vars(SessWaitReady) /\ WF_vars(SessEnsureSSHAuth)
    /\ WF_vars(SessIsProvisioned) /\ WF_vars(SessHasProvisionScript)
    /\ SF_vars(SessSelectCtx) /\ WF_vars(SessSelectAfter) /\ WF_vars(SessPoll)
    /\ WF_vars(SessReturned) /\ WF_vars(SessOpen)

-----------------------------------------------------------------------------
(* Client.Provision(ctx, name, opts): the files it writes into the rootfs. *)

pvFrame == <<oldVars, ctx, ri, wr, wp, jt>>

RcLocal == "/etc/rc.local"

\* The options that decide what is written: len(opts.DNS) > 0,
\* len(opts.Env) > 0, opts.SSHPubKey != "", opts.DevTools, opts.Egress, and
\* whether the preset of opts.Egress has CIDRs.
ProvisionOpts ==
    [dns : BOOLEAN, env : BOOLEAN, key : BOOLEAN, devtools : BOOLEAN,
     egress : {"unrestricted", "agent", "allowlist"}, cidrs : BOOLEAN]

When(c, s) == IF c THEN s ELSE <<>>

\* A deliberately wrong variant: rc.local is written before the egress
\* files.
ProvisionWritesRcLocalEarly(o) ==
    When(o.dns, <<"/etc/systemd/resolved.conf.d/pixels-dns.conf">>)
    \o When(o.env, <<"/etc/environment">>)
    \o When(o.key \/ o.devtools,
         When(o.key, <<"/root/.ssh/authorized_keys",
                       "/home/pixel/.ssh/authorized_keys">>)
         \o When(o.devtools, <<"/usr/local/bin/pixels-setup-devtools.sh",
                               "/etc/systemd/system/pixels-devtools.service">>)
         \o When(o.key, <<RcLocal>>)
         \o When(Restricted(o.egress),
              <<"/etc/pixels-egress-domains">>
              \o When(o.cidrs, <<"/etc/pixels-egress-cidrs">>)
              \o <<"/etc/nftables.conf", "/usr/local/bin/pixels-resolve-egress.sh",
                   "/usr/local/bin/safe-apt", "/etc/sudoers.d/pixel">>))

\* The calls of c.Filesystem.WriteFile in the order of the function's text,
\* for the options o; nothing follows /etc/environment when there is
\* neither a key nor devtools.
ProvisionWrites(o) ==
    When(o.dns, <<"/etc/systemd/resolved.conf.d/pixels-dns.conf">>)
    \o When(o.env, <<"/etc/environment">>)
    \o When(o.key \/ o.devtools,
         When(o.key, <<"/root/.ssh/authorized_keys",
                       "/home/pixel/.ssh/authorized_keys">>)
         \o When(o.devtools, <<"/usr/local/bin/pixels-setup-devtools.sh",
                               "/etc/systemd/system/pixels-devtools.service">>)
         \o When(Restricted(o.egress),
              <<"/etc/pixels-egress-domains">>
              \o When(o.cidrs, <<"/etc/pixels-egress-cidrs">>)
              \o <<"/etc/nftables.conf", "/usr/local/bin/pixels-resolve-egress.sh",
                   "/usr/local/bin/safe-apt", "/etc/sudoers.d/pixel">>)
         \o When(o.key, <<RcLocal>>))

\* tried holds every WriteFile call made, with its outcome.
InitProvision ==
    /\ instStatus = "RUNNING" /\ cache = NoEntry /\ pubKey = ""
    /\ ctx = "background"
    /\ InvIdle /\ DoIdle /\ RepIdle /\ PollIdle /\ FsIdle /\ EgIdle /\ ProvIdle
    /\ ri = Unused /\ wr = Unused /\ wp = Unused /\ jt = Unused
    /\ \E o \in ProvisionOpts :
         pv = [pc |-> "cfg", opts |-> o, tried |-> <<>>, res |-> "none"]

\* gcfg, err := c.Virt.GetGlobalConfig(ctx); an error and an empty pool end
\* the call before any write.
PvGetGlobalConfig ==
    /\ pv.pc = "cfg"
    /\ \E out \in {"ok", "err", "nopool"} :
         pv' = [pv EXCEPT !.pc = IF out = "ok" THEN "write" ELSE "ret",
                          !.res = IF out = "ok" THEN pv.res ELSE out]
    /\ UNCHANGED pvFrame

\* A deliberately wrong variant: the error of a write is dropped.
PvWriteFileUnchecked ==
    /\ pv.pc = "write" /\ Len(pv.tried) < Len(ProvisionWrites(pv.opts))
    /\ \E ok \in BOOLEAN :
         pv' = [pv EXCEPT !.tried = Append(pv.tried,
                    [path |-> ProvisionWrites(pv.opts)[Len(pv.tried) + 1], ok |-> ok])]
    /\ UNCHANGED pvFrame

\* if err := c.Filesystem.WriteFile(ctx, rootfs+path, ...); err != nil {
\*     return fmt.Errorf("writing ...: %w", err) }
PvWriteFile ==
    /\ pv.pc = "write" /\ Len(pv.tried) < Len(ProvisionWrites(pv.opts))
    /\ \E ok \in BOOLEAN :
         LET path == ProvisionWrites(pv.opts)[Len(pv.tried) + 1]
         IN  pv' = [pv EXCEPT !.tried = Append(pv.tried, [path |-> path, ok |-> ok]),
                              !.pc = IF ok THEN "write" ELSE "ret",
                              !.res = IF ok THEN pv.res ELSE path]
    /\ UNCHANGED pvFrame

\* return nil
PvReturn ==
    /\ pv.pc = "write" /\ Len(pv.tried) = Len(ProvisionWrites(pv.opts))
    /\ pv' = [pv EXCEPT !.pc = "ret", !.res = "nil"]
    /\ UNCHANGED pvFrame

NextProvision == PvGetGlobalConfig \/ PvWriteFile \/ PvReturn

SpecProvision == InitProvision /\ [][NextProvision]_vars

-----------------------------------------------------------------------------
(* The end of create with --console: the wait for the dev tools with the   *)
(* journal tail beside it, then the console.                               *)

jtFrame == <<oldVars, ctx, ri, wr, wp, pv>>

\* The checks of the sentinel and the journal lines printed are counted up
\* to these numbers.
MaxChecks  == 2
MaxJournal == 2

\* openConsole, ip != "" and devToolsActive decide the path; the container
\* is still installing the dev tools or has finished.
InitTail ==
    /\ instStatus = "RUNNING" /\ cache = NoEntry /\ pubKey = ""
    /\ ctx = "background"
    /\ InvIdle /\ DoIdle /\ RepIdle /\ PollIdle /\ FsIdle /\ EgIdle /\ ProvIdle
    /\ ri = Unused /\ wr = Unused /\ wp = Unused /\ pv = Unused
    /\ \E o, i, d, s \in BOOLEAN :
         jt = [open |-> o, ipSet |-> i, devtools |-> d, sentinel |-> s,
               main |-> "start", tail |-> "none", jctx |-> "none",
               done |-> FALSE, waitRes |-> "none", checks |-> 0,
               expired |-> FALSE, lines |-> 0]

\* if openConsole && ip != "" { if devToolsActive { ... } return ssh.Console(...) }
\* return nil
JtBranch ==
    /\ jt.main = "start"
    /\ jt' = [jt EXCEPT !.main = IF ~(jt.open /\ jt.ipSet) THEN "ret"
                                 ELSE IF jt.devtools THEN "spawn" ELSE "console"]
    /\ UNCHANGED jtFrame

\* journalCtx, journalCancel := context.WithCancel(ctx);
\* done := make(chan struct{}); go func() { ... }()
JtSpawn ==
    /\ jt.main = "spawn"
    /\ jt' = [jt EXCEPT !.main = "wait", !.tail = "spawned", !.jctx = "live"]
    /\ UNCHANGED jtFrame

\* The goroutine runs: ssh.Exec(journalCtx, ..., journalctl -fu ...).
\* exec.CommandContext does not start a process under a context that is
\* done, and ssh may fail to start; then Exec returns and done is closed.
JtTailStart ==
    /\ jt.tail = "spawned"
    /\ \/ /\ jt.jctx = "live"
          /\ jt' = [jt EXCEPT !.tail = "running"]
       \/ jt' = [jt EXCEPT !.tail = "exited", !.done = TRUE]
    /\ UNCHANGED jtFrame

\* The tail prints a line of the journal.
JtTailLine ==
    /\ jt.tail = "running" /\ jt.lines < MaxJournal
    /\ jt' = [jt EXCEPT !.lines = jt.lines + 1]
    /\ UNCHANGED jtFrame

\* ssh ends by itself (the connection is lost): Exec returns,
\* defer close(done).
JtTailExit ==
    /\ jt.tail = "running"
    /\ jt' = [jt EXCEPT !.tail = "exited", !.done = TRUE]
    /\ UNCHANGED jtFrame

\* journalCtx is done: os/exec kills the ssh process, cmd.Run returns,
\* defer close(done).
JtTailKilled ==
    /\ jt.tail = "running" /\ jt.jctx = "cancelled"
    /\ jt' = [jt EXCEPT !.tail = "exited", !.done = TRUE]
    /\ UNCHANGED jtFrame

\* The dev tools finish in the container: the sentinel is written.
JtSentinel ==
    /\ ~jt.sentinel /\ jt.main = "wait"
    /\ jt' = [jt EXCEPT !.sentinel = TRUE]
    /\ UNCHANGED jtFrame

\* pollUntil, case <-ticker.C: checkFn is `sudo test -f <sentinel>` over
\* ssh; true ends the wait with nil.
JtWaitCheck ==
    /\ jt.main = "wait"
    /\ \E sshOk \in BOOLEAN :
         jt' = [jt EXCEPT !.checks = IF jt.checks < MaxChecks THEN jt.checks + 1
                                     ELSE jt.checks,
                          !.waitRes = IF sshOk /\ jt.sentinel THEN "nil" ELSE jt.waitRes,
                          !.main = IF sshOk /\ jt.sentinel THEN "cancel" ELSE jt.main]
    /\ UNCHANGED jtFrame

\* The 10 minutes of the wait pass.
JtWaitExpire ==
    /\ jt.main = "wait" /\ ~jt.expired
    /\ jt' = [jt EXCEPT !.expired = TRUE]
    /\ UNCHANGED jtFrame

\* pollUntil, case <-deadline: the timeout error, which create prints as a
\* warning.
JtWaitDeadline ==
    /\ jt.main = "wait" /\ jt.expired
    /\ jt' = [jt EXCEPT !.waitRes = "timeout", !.main = "cancel"]
    /\ UNCHANGED jtFrame

\* journalCancel()
JtCancel ==
    /\ jt.main = "cancel"
    /\ jt' = [jt EXCEPT !.jctx = "cancelled", !.main = "join"]
    /\ UNCHANGED jtFrame

\* A deliberately wrong variant: the console is opened without <-done.
JtJoinSkipped ==
    /\ jt.main = "join"
    /\ jt' = [jt EXCEPT !.main = "console"]
    /\ UNCHANGED jtFrame

\* <-done
JtJoin ==
    /\ jt.main = "join" /\ jt.done
    /\ jt' = [jt EXCEPT !.main = "console"]
    /\ UNCHANGED jtFrame

\* return ssh.Console(ip, cfg.SSH.User, cfg.SSH.Key)
JtConsole ==
    /\ jt.main = "console"
    /\ jt' = [jt EXCEPT !.main = "session"]
    /\ UNCHANGED jtFrame

NextTail ==
    \/ JtBranch \/ JtSpawn \/ JtTailStart \/ JtTailLine \/ JtTailExit
    \/ JtTailKilled \/ JtSentinel \/ JtWaitCheck \/ JtWaitExpire
    \/ JtWaitDeadline \/ JtCancel \/ JtJoin \/ JtConsole

SpecTail == InitTail /\ [][NextTail]_vars

\* The main goroutine and the tail goroutine both run, time passes, a
\* killed ssh ends, and the select of pollUntil takes the deadline once it
\* is ready; the journal and the dev tools are under no obligation.
SpecTailFair ==
    /\ InitTail /\ [][NextTail]_vars
    /\ WF_vars(JtBranch) /\ WF_vars(JtSpawn) /\ WF_vars(JtTailStart)
    /\ WF_vars(JtTailKilled) /\ WF_vars(JtWaitExpire) /\ SF_vars(JtWaitDeadline)
    /\ WF_vars(JtCancel) /\ WF_vars(JtJoin) /\ WF_vars(JtConsole)

-----------------------------------------------------------------------------
(* Properties of create.                                                   *)

\* The place of each call in the order of create.
StepRank(op) ==
    CASE op = "Connect"                -> 1
      [] op = "ResolveDataset"         -> 2
      [] op = "SnapshotCreate"         -> 3
      [] op = "SnapshotGet"            -> 3
      [] op = "CreateInstance"         -> 4
      [] op = "Provision"              -> 5
      [] op = "StopInstance"           -> 6
      [] op = "ReplaceContainerRootfs" -> 7
      [] op = "DeleteInstance"         -> 8
      [] op = "StartInstance"          -> 9
      [] op = "Poll"                   -> 10
      [] op = "WaitReady"              -> 11
      [] op = "CachePut"               -> 12
      [] op = "WaitProvisioned"        -> 13
      [] op = "Console"                -> 14
      [] op = "SnapshotDelete"         -> 15
      [] OTHER                         -> 0

InOrder ==
    \A i, j \in 1..Len(steps) :
        i < j => StepRank(steps[i].op) < StepRank(steps[j].op)

\* The steps the order of create is stated for.
MainSteps == {"CreateInstance", "Provision", "StopInstance", "StartInstance",
              "Poll", "WaitReady", "CachePut", "Console"}

\* The calls whose only purpose is to undo.
CleanupSteps == {"DeleteInstance", "SnapshotDelete"}

\* A failure create reports as a warning or drops: provisioning, the stop
\* and start of the restart after provisioning, the poll's timeout, and
\* the wait for SSH.
Tolerated(i) ==
    \/ steps[i].op \in {"Provision", "WaitReady"}
    \/ steps[i].op = "Poll" /\ steps[i].res = "timeout"
    \/ steps[i].op \in {"StopInstance", "StartInstance"} /\ Did("Provision", "ok")

\* C1 as stated: during create the steps run in the stated order and no
\* step runs unless the step before it returned successfully.
C1_NoStepAfterFailure ==
    cmd = "create" =>
        /\ InOrder
        /\ \A i, j \in 1..Len(steps) :
             (i < j /\ steps[i].op \in MainSteps /\ steps[j].op \in MainSteps)
                => steps[i].res = "ok"

\* C1 amended: during create the steps run in the stated order; a failure
\* of CreateInstance, of the clone's stop, rootfs replacement or start, or
\* a poll error other than the timeout ends create with nothing but
\* cleanup after it; a failure of Provision, of the restart's stop or
\* start, a poll timeout or a failed WaitReady is tolerated and the later
\* steps still run.
C1_OrderAndFatalSteps ==
    cmd = "create" =>
        /\ InOrder
        /\ \A i \in 1..Len(steps) :
             (steps[i].op \notin CleanupSteps /\ steps[i].res \notin {"ok", "found"}
              /\ ~Tolerated(i))
                => /\ \A j \in (i+1)..Len(steps) : steps[j].op \in CleanupSteps
                   /\ pc \in {"c_cleanup", "ret", "done"}
                   /\ pc = "done" => result = "err"

C1_Witness ==
    /\ cmd = "create" /\ pc = "done" /\ result = "replaced"
    /\ Did("CreateInstance", "ok") /\ Did("Provision", "ok")
    /\ Did("StopInstance", "err") /\ Did("StartInstance", "ok")
    /\ Did("Poll", "ok") /\ Did("WaitReady", "err")
    /\ Did("CachePut", "ok") /\ Did("Console", "ok")

\* C2: when create cloned from a source without a label and made the
\* temporary snapshot, its deletion has been issued by the time create ends,
\* whichever way it ends.
C2_TempSnapshotDeleteIssued ==
    (cmd = "create" /\ pc = "done" /\ Did("SnapshotCreate", "ok"))
        => "SnapshotDelete" \in Ops

\* C5: when ReplaceContainerRootfs failed during a clone create, the
\* placeholder container is gone and create has returned the error.
C5_PlaceholderDeleted ==
    (cmd = "create" /\ pc = "done" /\ Did("ReplaceContainerRootfs", "err"))
        => instStatus = "ABSENT" /\ result = "err"

\* C6: when create --from source:label finds no such snapshot, or cannot
\* look it up, create fails without having called CreateInstance and
\* without having created anything.
C6_FailsBeforeCreateInstance ==
    (cmd = "create" /\ (Did("SnapshotGet", "nil") \/ Did("SnapshotGet", "err")))
        => /\ "CreateInstance" \notin Ops
           /\ "SnapshotCreate" \notin Ops
           /\ pc \in {"ret", "done"}
           /\ result = "err"

C6_Witness ==
    /\ cmd = "create" /\ pc = "done" /\ opts.from = "source:label"
    /\ Did("SnapshotGet", "nil") /\ result = "err"

-----------------------------------------------------------------------------
(* Properties of ReplaceContainerRootfs.                                   *)

\* C3: every temporary cron job that ReplaceContainerRootfs created is
\* deleted when the call has ended.
C3_JobDeletedAtReturn == rpc = "r_ret" => job # "live"

\* The ZFS-path character set [A-Za-z0-9/._@-], written out.
ZFSPathChars == (48..57) \cup (65..90) \cup (97..122) \cup {45, 46, 47, 64, 95}
AllZFSPathChars(p) == \A i \in 1..Len(p) : p[i] \in ZFSPathChars
InLog(e) == \E i \in 1..Len(rLog) : rLog[i] = e

\* C4: when the target dataset path or the snapshot ID holds a character
\* outside [A-Za-z0-9/._@-], ReplaceContainerRootfs returns an error
\* without building the command or creating a cron job; when both are made
\* of those characters only, the check lets them through and the command
\* is built.
C4_PathValidation ==
    LET safe == AllZFSPathChars(DstDataset(rIn)) /\ AllZFSPathChars(rIn.snap)
    IN  rpc # "idle" =>
          /\ ~safe => /\ ~InLog("BuildCmd") /\ ~InLog("CronCreate")
                      /\ job = "none"
                      /\ rpc \in {"r_cfg", "r_validate", "r_ret"}
                      /\ rpc = "r_ret" => rRes \in {"err_config", "err_nodataset", "err_unsafe"}
                      /\ InLog("Validate") => rRes = "err_unsafe"
          /\ safe  => /\ rRes # "err_unsafe"
                      /\ InLog("Validate") => InLog("BuildCmd")

C4_Witness ==
    /\ rpc = "r_ret" /\ rRes = "err_unsafe"
    /\ \E i \in 1..Len(rIn.snap) : rIn.snap[i] = 59
    /\ AllZFSPathChars(DstDataset(rIn))

-----------------------------------------------------------------------------
(* Properties of destroy and of the cache.                                 *)

DoCalls == { i \in 1..Len(doLog) : doLog[i].ev \in {"ok", "fail"} }

\* C7: destroy calls DeleteInstance at most 3 times, waits 2s between two
\* consecutive calls, makes no call after a successful one, and returns
\* the delete error only when 3 calls have failed.
C7_DestroyRetry ==
    cmd = "destroy" =>
        /\ Cardinality(DoCalls) <= 3
        /\ \A i \in 1..Len(doLog) :
             /\ doLog[i].ev = "ok" => i = Len(doLog)
             /\ doLog[i].ev = "sleep" =>
                  doLog[i].d = 2 /\ i > 1 /\ doLog[i-1].ev = "fail"
             /\ (doLog[i].ev \in {"ok", "fail"} /\ i > 1) => doLog[i-1].ev = "sleep"
        /\ Did("DeleteInstance", "err") <=>
             (pc \in {"ret", "done"} /\ Len(doLog) = 5
              /\ \A i \in DoCalls : doLog[i].ev = "fail")
        /\ Did("DeleteInstance", "ok") =>
             (doLog # <<>> /\ doLog[Len(doLog)].ev = "ok")

C7_Witness ==
    /\ cmd = "destroy" /\ pc = "done" /\ result = "ok"
    /\ Len(doLog) = 5 /\ doLog[5].ev = "ok"

C9_EntryAfterCreateStartRestore ==
    (cmd \in {"create", "start", "restore"} /\ pc = "done" /\ result = "ok")
        => /\ cache.present
           /\ cache.IP = resolveIP(instance)
           /\ cache.Status = instance.Status

\* C10: console and exec go to the SSH connection without a GetInstance
\* lookup only when the cache entry is RUNNING, has an IP and carries the
\* current SSH key.
C10_FastPathOnlyOnValidEntry ==
    (cmd \in {"console", "exec"} /\ pc \in {"n_wait", "e_wait"}
     /\ "GetInstance" \notin Ops)
        => /\ cache.present
           /\ cache.Status = "RUNNING"
           /\ cache.IP # ""
           /\ cache.SSHPubKey = pubKey

-----------------------------------------------------------------------------
(* Properties of retry.Do.                                                 *)

DoSleeps == { i \in 1..Len(doLog) : doLog[i].ev = "sleep" }

\* Calls and sleeps alternate, beginning with a call.
DoAlternates ==
    \A i \in 1..Len(doLog) : (doLog[i].ev = "sleep") <=> (i % 2 = 0)

\* C16 as stated: when Do has returned it has slept exactly
\* max(0, attempts-1) times, never before the first call of fn and never
\* after the last.
C16_SleepsAttemptsMinusOne ==
    doPc = "ret" =>
        /\ Cardinality(DoSleeps) = (IF doN > 0 THEN doN - 1 ELSE 0)
        /\ DoAlternates

\* C16 amended: Do sleeps once between two consecutive calls of fn and at
\* no other time, so at most max(0, attempts-1) times: when it returns nil
\* or the last error it has slept exactly (calls - 1) times, which is
\* attempts-1 only when every attempt was used; a delay that the
\* cancellation of ctx cuts short is not followed by a call.
C16_SleepsBetweenCalls ==
    /\ DoAlternates
    /\ \A i \in DoSleeps : doLog[i].d = doD
    /\ Cardinality(DoSleeps) <= (IF doN > 0 THEN doN - 1 ELSE 0)
    /\ doPc = "ret" =>
          /\ doRes \in {"nil", "err"} =>
                Cardinality(DoSleeps) = (IF DoCalls = {} THEN 0 ELSE Cardinality(DoCalls) - 1)
          /\ doRes = "err" => Cardinality(DoSleeps) = doN - 1
          /\ doLog # <<>> => doLog[Len(doLog)].ev # "sleep"

C16_Witness ==
    /\ doPc = "ret" /\ doRes = "nil" /\ doN = 3
    /\ Cardinality(DoCalls) = 2 /\ Cardinality(DoSleeps) = 1

\* C17: Do calls fn at most attempts times; it returns nil at the first
\* call that succeeds, which is then its last call; when every attempt has
\* failed it returns the error of the final call.
C17_DoResult ==
    /\ Cardinality(DoCalls) <= (IF doN > 0 THEN doN ELSE 0)
    /\ \A i \in DoCalls : doLog[i].ev = "ok" => (i = Len(doLog) /\ doPc = "ret" /\ doRes = "nil")
    /\ (doPc = "ret" /\ doRes = "nil" /\ doN > 0) => doLog[Len(doLog)].ev = "ok"
    /\ (doPc = "ret" /\ doRes = "err") =>
          /\ Cardinality(DoCalls) = doN
          /\ \A i \in DoCalls : doLog[i].ev = "fail"
          /\ lastErr = doN
    /\ (doPc = "ret" /\ Cardinality(DoCalls) = doN /\ doN > 0
         /\ \A i \in DoCalls : doLog[i].ev = "fail") => doRes = "err"

C17_Witness ==
    /\ doPc = "ret" /\ doRes = "err" /\ doN = 3 /\ lastErr = 3
    /\ Cardinality(DoCalls) = 3

\* C18: when ctx is cancelled during a delay of Do, Do returns the
\* cancellation error from that delay and fn is not called again.
C18_CancelDuringDelay ==
    (cancelAt = "sleep" /\ doD > 0) =>
        /\ doPc \in {"sleep", "ret"}
        /\ doPc = "ret" => doRes = "ctxerr"
        /\ doLog # <<>> /\ doLog[Len(doLog)].ev = "fail"

C18_Witness ==
    /\ cancelAt = "sleep" /\ doD > 0 /\ doPc = "ret" /\ doRes = "ctxerr"
    /\ Cardinality(DoCalls) = 1 /\ doN = 3

-----------------------------------------------------------------------------
(* Properties of retry.Poll.                                               *)

C14_CancelWhileWaiting ==
    cancelAt = "wait" =>
        /\ pollPc \in {"select", "ret"}
        /\ pollPc = "ret" => pollRes = "ctxerr"
        /\ checks[Len(checks)].out = "false"
        /\ ~DeadlineReady /\ ~tickerC

C14_Witness ==
    /\ cancelAt = "wait" /\ pollPc = "ret" /\ pollRes = "ctxerr"
    /\ Len(checks) = 2

\* C15: Poll returns; when check never reported done or an error and ctx
\* was never cancelled, what it returns is the timeout error, and not
\* before the timeout has elapsed.
C15_TimeoutReturned ==
    /\ <>(pollPc = "ret")
    /\ [](pollPc = "ret" /\ pollRes = "timeout" => clock >= timeout)
    /\ []((pollPc = "ret" /\ ~CtxDone /\ \A i \in 1..Len(checks) : checks[i].out = "false")
            => pollRes = "timeout")

C15_Witness ==
    /\ pollPc = "ret" /\ pollRes = "timeout" /\ ~CtxDone
    /\ timeout = 2 /\ Len(checks) >= 2 /\ clock >= timeout

-----------------------------------------------------------------------------
(* Properties of the commands' error handling.                             *)

C20_NotFoundIsError ==
    (\E i \in 1..Len(steps) : steps[i].op = "GetInstance" /\ steps[i].res = "nil")
        => pc \in {"ret", "done"} /\ result = "err"

-----------------------------------------------------------------------------
(* Properties of the cache under concurrent processes.                     *)

\* C11: a Get that has returned holds a complete entry that was the name's
\* entry when it was entered (nil if there was none) or the entry of a Put
\* for the name that was under way while it ran.
C11_GetSeesPriorOrNew ==
    \A p \in Procs :
        (procs[p].op = "get" /\ procs[p].pc = "done")
            => procs[p].got \in procs[p].may

\* C12: once every Put for a name has returned, Get returns the entry that
\* one of them wrote; and a step changes no file but that of the name its
\* process is putting.
C12_LastWriterWins ==
    \A n \in Names :
        (Putting(n) = {} /\ written[n].all # {})
            => GetResult(n) \in written[n].all

-----------------------------------------------------------------------------
(* Properties of the RPC connection.                                       *)

\* C21: when a command's process has ended by returning, by os.Exit or by
\* being replaced, the RPC connection it opened has been closed.
C21_ConnClosedAtExit ==
    (pc = "done" /\ result \in {"ok", "err", "exit", "replaced", "aborted"})
        => conn = FALSE

-----------------------------------------------------------------------------
(* Properties of egress.ResolveDomains.                                    *)

NoDuplicates(s) == \A i, j \in 1..Len(s) : s[i] = s[j] => i = j

\* C22: for every mode and extras list the list ResolveDomains returns has
\* no duplicate domain.
C22_NoDuplicates ==
    rd.pc = "ret" => NoDuplicates(rd.out.elems)

\* C23: ResolveDomains returns nil if and only if the mode is unrestricted.
C23_NilIffUnrestricted ==
    rd.pc = "ret" => (rd.out.nil <=> rd.egress = "unrestricted")

-----------------------------------------------------------------------------
(* Properties of the network subcommands.                                  *)

\* The domains of a domains file, as the resolve script reads them: its
\* lines, trimmed, the blank ones left out; none when there is no file.
DomainLines(c) ==
    IF c = NoDomains THEN <<>>
    ELSE LET ls == SplitNL(c)
         IN  SelectSeq([i \in 1..Len(ls) |-> TrimSpace(ls[i])], LAMBDA l : l # <<>>)
InFile(x, c) == \E i \in 1..Len(DomainLines(c)) : DomainLines(c)[i] = x
NetDone(c) == net.cmd = c /\ net.pc = "ret"
NetLogOps == [i \in 1..Len(net.log) |-> net.log[i].op]

\* C24: after a `set unrestricted` whose three remote commands all
\* succeeded, no egress policy file is left in the container, the rules are
\* flushed and the sudoers file is the open one.
C24_UnrestrictedRemovesPolicy ==
    (/\ NetDone("set") /\ net.arg = "unrestricted" /\ net.result = "ok"
     /\ net.log[1].flush /\ net.log[1].rm /\ net.log[1].sudo)
        => /\ box.domains = NoDomains /\ ~box.cidrs /\ ~box.nftconf /\ ~box.script
           /\ ~box.rules /\ box.sudoers = "open"

\* C25: allow of a domain that the domains file holds leaves the file as it
\* is, writes and runs nothing, and succeeds once the file has been read.
C25_AllowPresentIsNoOp ==
    (NetDone("allow") /\ InFile(net.arg, net.start))
        => /\ box.domains = net.start
           /\ net.log = <<>>
           /\ net.out # <<>> => net.result = "ok"

C25_Witness ==
    /\ NetDone("allow") /\ InFile(net.arg, net.start) /\ net.result = "ok"
    /\ Len(DomainLines(net.start)) > 1

\* C26: deny of a domain that the domains file does not hold ends with an
\* error and leaves the file as it is.
C26_DenyAbsentFails ==
    (NetDone("deny") /\ ~InFile(net.arg, net.start))
        => /\ net.result = "err"
           /\ box.domains = net.start
           /\ net.log = <<>>

C26_Witness ==
    /\ NetDone("deny") /\ ~InFile(net.arg, net.start) /\ net.result = "err"
    /\ net.out = net.start /\ DomainLines(net.start) # <<>>

C28_SuccessRanResolve ==
    ((NetDone("allow") \/ NetDone("deny")) /\ net.result = "ok")
        => \E i \in 1..Len(net.log) : net.log[i].op = "resolve"

\* C28 amended: every deny that succeeds, and every allow that succeeds for
\* a domain the file did not hold, has written the file and then run the
\* resolve script; an allow that succeeds for a domain the file held has
\* run nothing.
C28_ResolveAfterWrite ==
    /\ (NetDone("deny") /\ net.result = "ok") => NetLogOps = <<"write", "resolve">>
    /\ (NetDone("allow") /\ net.result = "ok") =>
          NetLogOps = IF InFile(net.arg, net.start) THEN <<>>
                      ELSE <<"write", "resolve">>

C28_Witness ==
    /\ NetDone("allow") /\ net.result = "ok" /\ NetLogOps = <<"write", "resolve">>
    /\ box.rules

-----------------------------------------------------------------------------
(* Properties of the provision package.                                    *)

\* C29: a finalize script has been started only if every step's session has
\* ended with exit code 0.
C29_FinalizeAfterAllSucceeded ==
    prov.finalized # <<>> =>
        \A j \in 1..Len(prov.steps) : prov.code[j] = <<"0">>

C29_Witness ==
    /\ prov.finalized = << PxEgress >> /\ Len(prov.steps) = 2
    /\ prov.exit = "complete" /\ prov.sentinel


\* The lines of the output that are sessions of the name.
LinesOf(name) ==
    { j \in 1..Len(ps.raw) : /\ ps.raw[j][1].k = "session_name"
                             /\ ps.raw[j][1].v = name }

\* C30 as stated: allDone is true if and only if every expected name has a
\* session in the output with a non-empty ended-at.
C30_AllDoneIffAllEnded ==
    ps.pc = "ret" =>
        (ps.allDone <=>
            \A i \in 1..Len(ps.names) :
                \E j \in LinesOf(ps.names[i]) :
                    \E f \in 1..Len(ps.raw[j]) : ps.raw[j][f].k = "task_ended_at")

\* C30 amended: allDone is true if and only if the list succeeded and every
\* expected name begins with "px-" and the last session of that name in the
\* output has a non-empty ended-at; then no name is pending or running.
C30_AllDoneIffListedAndEnded ==
    ps.pc = "ret" =>
        /\ ps.allDone <=>
              /\ ~ps.listErr
              /\ \A i \in 1..Len(ps.names) :
                    /\ ps.names[i][1] = "px-"
                    /\ LinesOf(ps.names[i]) # {}
                    /\ LET j == CHOOSE j \in LinesOf(ps.names[i]) :
                                   \A m \in LinesOf(ps.names[i]) : j >= m
                       IN  \E f \in 1..Len(ps.raw[j]) : ps.raw[j][f].k = "task_ended_at"
        /\ ~ps.listErr =>
              (ps.allDone <=> \A i \in 1..Len(ps.parts) :
                                  ps.parts[i] \notin {"pending", "running"})

C30_Witness ==
    /\ ps.pc = "ret" /\ ps.allDone /\ Len(ps.names) = 2
    /\ ps.names[1] # ps.names[2]
    /\ "failed" \in { ps.parts[i] : i \in 1..Len(ps.parts) }

-----------------------------------------------------------------------------
(* Properties of runCheckpointRestore.                                     *)

RestoreOrder ==
    <<"Connect", "ResolveDataset", "StopInstance", "Rollback",
      "StartInstance", "GetInstance", "CachePut", "WaitReady">>

\* C33: checkpoint restore performs stop, rollback, start, the instance
\* lookup, Cache.Put and WaitReady in that order, each one only after the
\* one before it succeeded: rollback is issued only after a successful stop
\* and start only after a successful rollback.
C33_RestoreInOrder ==
    cmd = "restore" =>
        /\ Len(steps) <= Len(RestoreOrder)
        /\ \A i \in 1..Len(steps) :
              /\ steps[i].op = RestoreOrder[i]
              /\ i < Len(steps) => steps[i].res = "ok"

C33_Witness ==
    /\ cmd = "restore" /\ pc = "done" /\ result = "ok"
    /\ Len(steps) = Len(RestoreOrder)
    /\ Did("StopInstance", "ok") /\ Did("Rollback", "ok")
    /\ Did("StartInstance", "ok") /\ Did("WaitReady", "ok")

-----------------------------------------------------------------------------
(* Properties of the cache against the instance's state.                   *)

\* C39: after a command has ended, the cache holds no RUNNING entry for a
\* pixel that the command stopped and did not start again.
C39_NoRunningEntryAfterStop ==
    (pc = "done" /\ Did("StopInstance", "ok") /\ ~Did("StartInstance", "ok"))
        => ~(cache.present /\ cache.Status = "RUNNING")

-----------------------------------------------------------------------------
(* Properties of resolveIP.                                                *)

\* C37: resolveIP returns the address of the first alias whose type is INET
\* or ipv4 and whose address is not empty, the empty string if there is no
\* such alias, and never an IPv6 address.
C37_FirstNonEmptyIPv4 ==
    ri.pc = "ret" =>
        LET hits == { i \in 1..Len(ri.Aliases) :
                        /\ ri.Aliases[i].Type \in {"INET", "ipv4"}
                        /\ ri.Aliases[i].Address # "" }
        IN  /\ ri.out \notin V6Addrs
            /\ ri.out = IF hits = {} THEN ""
                        ELSE ri.Aliases[CHOOSE i \in hits : \A j \in hits : i <= j].Address

-----------------------------------------------------------------------------
(* Properties of ssh.WaitReady.                                            *)

\* C34: WaitReady returns, whatever the dials do: it dials on the ticker's
\* ticks, at most once per period of 500ms, returns nil on the first dial
\* that succeeds, and returns the timeout error only once its timeout has
\* elapsed.
C34_WaitReadyReturns ==
    /\ <>(wr.pc = "ret")
    /\ [](\A i \in 1..Len(wr.dials) :
             /\ wr.dials[i].at >= i
             /\ wr.dials[i].out = "ok" => (i = Len(wr.dials) /\ wr.res = "nil"))
    /\ [](wr.pc = "ret" =>
             /\ wr.res = "nil" <=> (wr.dials # <<>> /\ wr.dials[Len(wr.dials)].out = "ok")
             /\ wr.res = "timeout" => wr.clock >= wr.timeout
             /\ wr.res = "ctxerr" => WrCtxDone)

C34_Witness ==
    /\ wr.pc = "ret" /\ wr.res = "timeout" /\ wr.timeout = 2 /\ ~WrCtxDone
    /\ Len(wr.dials) >= 2 /\ wr.clock >= wr.timeout

-----------------------------------------------------------------------------
(* Properties of WaitProvisioned and of the sessions opened after it.      *)

InWaitProvisioned == wp.pc \in {"probe1", "probe2", "select", "poll"}

\* C31: WaitProvisioned returns at once when the sentinel is present or no
\* second-stage script was installed; otherwise it polls, and it returns
\* only when the sentinel has appeared or the context is cancelled.
C31_ReturnsOnlyOnSentinelOrCancel ==
    wp.pc = "returned" =>
        \/ wp.stage = "done"
        \/ ~wp.script
        \/ ctx = "cancelled"

\* C32: when a provisioning step has exited non-zero, so that the sentinel
\* never appears, a console whose authentication succeeded reaches the SSH
\* session.
C32_ConsoleReachesSession ==
    (wp.kind = "console" /\ wp.stage = "failed" /\ InWaitProvisioned)
        ~> (wp.pc = "session")

\* C40: in a pixel created with egress agent or allowlist, console, exec and
\* create --console give the user a session only after the egress lockdown
\* (pixels-enable-egress.sh, the finalize hook of px-egress) has completed.
C40_SessionAfterLockdown ==
    (wp.pc = "session" /\ Restricted(wp.egress)) => wp.lockedAtOpen

-----------------------------------------------------------------------------
(* Properties of Client.Provision.                                         *)

PvPaths == { pv.tried[i].path : i \in 1..Len(pv.tried) }

\* C35: in every Provision call that writes /etc/rc.local, rc.local is the
\* last file written: no write is made after it.
C35_RcLocalLast ==
    \A i \in 1..Len(pv.tried) :
        pv.tried[i].path = RcLocal => i = Len(pv.tried)

C35_Witness ==
    /\ pv.pc = "ret" /\ pv.res = "nil" /\ RcLocal \in PvPaths
    /\ pv.opts.dns /\ pv.opts.env /\ pv.opts.devtools /\ pv.opts.cidrs
    /\ pv.opts.egress = "agent" /\ Len(pv.tried) = 13

\* C36: when a file write fails, Provision makes no further write and
\* returns the error of that write.
C36_FirstErrorReturned ==
    \A i \in 1..Len(pv.tried) :
        ~pv.tried[i].ok =>
            /\ i = Len(pv.tried)
            /\ pv.pc = "ret" /\ pv.res = pv.tried[i].path

C36_Witness ==
    /\ pv.pc = "ret" /\ Len(pv.tried) = 3 /\ ~pv.tried[3].ok
    /\ pv.res = "/root/.ssh/authorized_keys"
    /\ Len(ProvisionWrites(pv.opts)) > 3

-----------------------------------------------------------------------------
(* Properties of create --console's journal tail.                          *)

\* C38: in create --console the journal tail is cancelled as the first
\* thing after the provisioning wait has returned, the tail has finished
\* before create goes on to the console, and create does reach the console:
\* the wait and the tail do not block one another.
C38_TailJoinedBeforeConsole ==
    /\ []((jt.waitRes # "none" /\ jt.main # "cancel") => jt.jctx = "cancelled")
    /\ []((jt.devtools /\ jt.main \in {"console", "session"})
             => (jt.tail = "exited" /\ jt.done))
    /\ (jt.main = "wait") ~> (jt.main = "session")

C38_Witness ==
    /\ jt.main = "session" /\ jt.devtools /\ jt.waitRes = "nil"
    /\ jt.tail = "exited" /\ jt.lines = MaxJournal /\ jt.checks >= 2

====
